---- MODULE Spec2Model ----
(***************************************************************************)
(* Model of the retrieval-augmented-generation pipeline of the backend:    *)
(*   app/services/retrieval.py   RetrievalService                          *)
(*   app/services/embeddings.py  EmbeddingService                          *)
(*   app/services/reranker.py    RerankerService                           *)
(*   app/services/vectordb.py    VectorDBService                           *)
(*                                                                         *)
(* Strings are sequences of one-character strings.  Scores, thresholds and *)
(* delays are integers in hundredths (0.5 is 50, 1.0 second is 100).       *)
(* An Optional value is a sequence: << >> is None, <<v>> is the value v.   *)
(***************************************************************************)
EXTENDS Integers, Sequences, FiniteSets, TLC

VARIABLES
    \* ---- one call of RetrievalService.retrieve_relevant_chunks ----
    query,            \* the query string
    user_id,          \* the caller's scope key
    config,           \* RetrievalConfig: k, rerank, filters, threshold
    index,            \* the vectors stored in the vector index
    model,            \* RerankerService.model: "loaded" or "None"
    r_pc,             \* position of the call
    embed_calls,      \* calls made to the embedding provider
    search_calls,     \* queries made to the vector index
    filter_sent,      \* Optional: the filter handed to the vector index
    search_results,   \* candidates returned by the vector index
    reranked_results, \* candidates kept by step 3
    r_outcome,        \* what the caller of retrieve_relevant_chunks gets
    r_failure,        \* the step that failed: "none", "embedding" or "vector_index"
    \* ---- one call of RetrievalService._format_context_for_llm ----
    context_chunks,
    max_context_length,
    f_pc,
    formatted_context,
    \* ---- one call of EmbeddingService.generate_embeddings ----
    texts,            \* the input list
    single,           \* TRUE when entered through generate_single_embedding
    e_pc,             \* position of the call
    batch_start,      \* i of the batch loop
    attempt,          \* attempt of the retry loop
    all_embeddings,   \* embeddings gathered from finished batches
    provider_log,     \* the calls received by the provider, in order
    sleep_log,        \* the waits taken, in order
    e_outcome,        \* what the caller of generate_embeddings gets
    \* ---- one call of RerankerService.rerank or rerank_with_metadata ----
    k_op,             \* "rerank" or "rerank_with_metadata"
    k_model,          \* self.model of the service: "loaded" or "None"
    k_candidates,     \* search_results given to rerank_with_metadata
    k_documents,      \* documents given to rerank
    k_top_k,          \* Optional top_k
    k_pc,             \* position of the call
    k_batch_start,    \* i of the loop of _predict_scores
    k_scores,         \* all_scores of _predict_scores
    k_predict_raised, \* TRUE once self.model.predict has raised
    k_outcome,        \* what the caller gets
    \* ---- one call of DocumentProcessor._create_chunks ----
    c_raw,            \* the text argument
    c_text,           \* text after line 367
    chunk_size,       \* self.chunk_size
    chunk_overlap,    \* self.chunk_overlap
    extra_info,       \* "None", "no_pages" or "pages"
    c_start,          \* start
    c_end,            \* end at the previous iteration
    c_chunk_index,    \* chunk_index
    c_chunks,         \* chunks
    c_pc,             \* position of the call
    c_prev_start,     \* start at the previous iteration, -1 before the first
    c_failed,         \* TRUE once the try block has raised
    c_outcome,        \* what the caller gets
    \* ---- one call of RetrievalService.get_context_for_query ----
    g_outcome,        \* what the caller of get_context_for_query gets
    \* ---- ingestion: upload, reprocess, background tasks, delete_document ----
    i_doc,            \* the row of the document in the database
    i_jobs,           \* ingestion_jobs: job id -> job
    i_tasks,          \* the background task of each job
    i_index,          \* chunk indices of the document's vectors held by the vector index
    i_delete_pc,      \* position of the call of delete_document
    i_delete_outcome, \* what delete_document answered
    \* ---- one RerankerService shared by concurrent coroutines ----
    m_constructed,    \* self.model and self.model_name as __init__ left them
    m_model,          \* self.model: "None" or the name the handle was loaded from
    m_model_name,     \* self.model_name
    m_calls,          \* per caller: position of its rerank call and the handles it read
    m_update,         \* the update_model call: position, old_model, updates made
    \* ---- one call of RetrievalService._create_snippet ----
    s_text,           \* text: the chunk_text of the citation
    s_pc,             \* position of the call
    s_snippet,        \* the snippet returned
    \* ---- one call of EmbeddingService.create_embeddings_with_metadata ----
    w_chunks,         \* chunks: the list given by the caller
    w_pc,             \* position of the call
    w_outcome,        \* what the caller gets
    \* ---- the ConnectionManager of the chat router and its WebSocket handlers ----
    n_active,         \* manager.active_connections: session_id -> socket, NoSocket when absent
    n_sockets         \* per socket: position of its websocket_endpoint and its session_id

rvars == <<query, user_id, config, index, model, r_pc, embed_calls, search_calls,
           filter_sent, search_results, reranked_results, r_outcome, r_failure>>
fvars == <<context_chunks, max_context_length, f_pc, formatted_context>>
evars == <<texts, single, e_pc, batch_start, attempt, all_embeddings,
           provider_log, sleep_log, e_outcome>>
kvars == <<k_op, k_model, k_candidates, k_documents, k_top_k, k_pc, k_batch_start,
           k_scores, k_predict_raised, k_outcome>>
cvars == <<c_raw, c_text, chunk_size, chunk_overlap, extra_info, c_start, c_end,
           c_chunk_index, c_chunks, c_pc, c_prev_start, c_failed, c_outcome>>
gvars == <<g_outcome>>
ivars == <<i_doc, i_jobs, i_tasks, i_index, i_delete_pc, i_delete_outcome>>
mvars == <<m_constructed, m_model, m_model_name, m_calls, m_update>>
svars == <<s_text, s_pc, s_snippet>>
wvars == <<w_chunks, w_pc, w_outcome>>
nvars == <<n_active, n_sockets>>
vars == <<rvars, fvars, evars, kvars, cvars, gvars, ivars, mvars, svars, wvars, nvars>>

(***************************************************************************)
(* Bounds of the model                                                     *)
(***************************************************************************)
MaxK == 2
MaxChunks == 3
MaxBudget == 40
MaxTexts == 5

(***************************************************************************)
(* Strings and lists                                                       *)
(***************************************************************************)
Min(a, b) == IF a < b THEN a ELSE b
Max(a, b) == IF a > b THEN a ELSE b

\* list[:n]
Take(s, n) == SubSeq(s, 1, Min(Len(s), Max(n, 0)))

\* list[a:b] with 0-based a and exclusive b
Slice(s, a, b) == SubSeq(s, a + 1, Min(Len(s), b))

LowerLetters == <<"a","b","c","d","e","f","g","h","i","j","k","l","m",
                  "n","o","p","q","r","s","t","u","v","w","x","y","z">>
UpperLetters == <<"A","B","C","D","E","F","G","H","I","J","K","L","M",
                  "N","O","P","Q","R","S","T","U","V","W","X","Y","Z">>

\* str.upper() on one character
UpperChar(c) ==
    IF \E i \in 1..26 : LowerLetters[i] = c
    THEN UpperLetters[CHOOSE i \in 1..26 : LowerLetters[i] = c]
    ELSE c

\* str.upper()
Upper(s) == [i \in 1..Len(s) |-> UpperChar(s[i])]

IsSpace(c) == c \in {" ", "\n", "\t"}

\* str.strip()
Strip(s) ==
    IF \A i \in 1..Len(s) : IsSpace(s[i]) THEN << >>
    ELSE LET first == CHOOSE i \in 1..Len(s) :
                         /\ ~IsSpace(s[i])
                         /\ \A j \in 1..(i-1) : IsSpace(s[j])
             last == CHOOSE i \in 1..Len(s) :
                         /\ ~IsSpace(s[i])
                         /\ \A j \in (i+1)..Len(s) : IsSpace(s[j])
         IN SubSeq(s, first, last)

\* pattern in s
Contains(s, pattern) ==
    \E i \in 1..(Len(s) - Len(pattern) + 1) :
        SubSeq(s, i, i + Len(pattern) - 1) = pattern

RECURSIVE SumLen(_)
SumLen(parts) ==
    IF parts = << >> THEN 0 ELSE Len(Head(parts)) + SumLen(Tail(parts))

\* separator.join(parts)
RECURSIVE Join(_, _)
Join(separator, parts) ==
    IF parts = << >> THEN << >>
    ELSE IF Len(parts) = 1 THEN parts[1]
    ELSE parts[1] \o separator \o Join(separator, Tail(parts))

Digits == <<"0","1","2","3","4","5","6","7","8","9">>

\* str(n) for a natural number n
RECURSIVE Str(_)
Str(n) == IF n < 10 THEN <<Digits[n + 1]>>
          ELSE Str(n \div 10) \o <<Digits[(n % 10) + 1]>>

(***************************************************************************)
(* RetrievalService.validate_query                                         *)
(***************************************************************************)
suspicious_patterns == <<
    <<" ","D","R","O","P"," ">>,
    <<" ","D","E","L","E","T","E"," ">>,
    <<" ","U","P","D","A","T","E"," ">>,
    <<" ","I","N","S","E","R","T"," ">>,
    <<"<","s","c","r","i","p","t",">">>,
    <<"<","/","s","c","r","i","p","t",">">>,
    <<"j","a","v","a","s","c","r","i","p","t",":">>,
    <<"S","E","L","E","C","T"," ">>,
    <<" ","F","R","O","M"," ">>,
    <<" ","W","H","E","R","E"," ">> >>

validate_query(q) ==
    IF q = << >> \/ Strip(q) = << >> THEN FALSE
    ELSE IF \E p \in 1..Len(suspicious_patterns) :
                Contains(Upper(q), Upper(suspicious_patterns[p]))
         THEN FALSE
         ELSE TRUE

(***************************************************************************)
(* The vector index (VectorDBService.search_vectors over the external      *)
(* index) and the cross-encoder                                            *)
(***************************************************************************)
Users == {"userA", "userB"}

TextML == <<"m","l">>
TextAI == <<"a","i">>

Vector(id, owner, doc, score, text) ==
    [id |-> id, score |-> score,
     metadata |-> [user_id |-> owner, doc_id |-> doc, text |-> text,
                   source_filename |-> <<"f">>, page_number |-> << >>,
                   chunk_index |-> 0]]

\* The vectors an index may hold.  Scores are cosine similarities
\* (metric="cosine"), in hundredths, so they lie in -100..100.
VectorPool == {
    Vector("v1", "userA", "d1", 90, TextML),
    Vector("v2", "userA", "d1", 60, TextAI),
    Vector("v3", "userA", "d2", 40, << >>),
    Vector("v4", "userB", "d3", 95, TextAI),
    Vector("v5", "userA", "d2", -20, <<" ">>) }

\* self.model.predict on one (query, document) pair, in hundredths
predict(q, doc) ==
    IF doc = TextML THEN 20 ELSE IF doc = TextAI THEN 80 ELSE 50

\* the exact-match metadata filter of the index
Matches(v, filter_dict) ==
    \A key \in DOMAIN filter_dict : v.metadata[key] = filter_dict[key]

\* the candidates of a set by descending score
RECURSIVE ByDescendingScore(_)
ByDescendingScore(vs) ==
    IF vs = {} THEN << >>
    ELSE LET best == CHOOSE v \in vs :
                        \A w \in vs : v.score >= w.score
         IN <<best>> \o ByDescendingScore(vs \ {best})

\* search_vectors: the index answers with the matching vectors, closest
\* first, at most top_k of them
search_vectors(idx, top_k, filter_dict) ==
    LET matches == ByDescendingScore({v \in idx : Matches(v, filter_dict)})
    IN [i \in 1..Min(Len(matches), top_k) |->
            [id |-> matches[i].id, score |-> matches[i].score,
             metadata |-> matches[i].metadata]]

(***************************************************************************)
(* RetrievalService                                                        *)
(***************************************************************************)
top_k_to_rerank == 20

\* dict.update: the keys of other replace those of base
DictUpdate(base, other) ==
    [key \in (DOMAIN base) \cup (DOMAIN other) |->
        IF key \in DOMAIN other THEN other[key] ELSE base[key]]

\* _perform_vector_search, lines 118-123: the filter handed to the index.
\* filters None and filters {} are both falsy and both are the empty map.
user_filter(uid, filters) ==
    IF DOMAIN filters # {} THEN DictUpdate([user_id |-> uid], filters)
    ELSE [user_id |-> uid]

\* retrieve_relevant_chunks, line 48
initial_k(cfg) ==
    IF cfg.rerank THEN Max(cfg.k, top_k_to_rerank) ELSE cfg.k

\* _rerank_results, lines 154-164: the loop body appends to the unbound name
\* texts_to_rererank, so the first result with non-blank text raises NameError
RerankLoopRaises(results) ==
    \E i \in 1..Len(results) : Strip(results[i].metadata.text) # << >>

\* _rerank_results.  When the loop raises, the except branch (192-195) answers
\* with the first final_k search results.  When it does not, texts_to_rerank
\* is still empty and line 167 answers with the empty list; lines 169-190
\* (the call of the reranker, the sort) are never reached.
_rerank_results(q, results, final_k) ==
    IF RerankLoopRaises(results) THEN Take(results, final_k)
    ELSE << >>

\* retrieve_relevant_chunks, step 3 (lines 61-69)
Step3(q, cfg, results) ==
    IF cfg.rerank /\ Len(results) > cfg.k
    THEN _rerank_results(q, results, cfg.k)
    ELSE Take(results, cfg.k)

RECURSIVE SelectSeq2(_, _)
SelectSeq2(s, keep) ==
    IF s = << >> THEN << >>
    ELSE IF keep[1] THEN <<Head(s)>> \o SelectSeq2(Tail(s), Tail(keep))
    ELSE SelectSeq2(Tail(s), Tail(keep))

\* Optional[float] threshold: None and 0.0 are falsy (line 72)
Truthy(opt) == opt # << >> /\ opt[1] # 0

\* step 4 comparing with > instead of >=
Step4_strict(cfg, kept) ==
    IF Truthy(cfg.threshold)
    THEN SelectSeq2(kept, [i \in 1..Len(kept) |-> kept[i].score > cfg.threshold[1]])
    ELSE kept

\* retrieve_relevant_chunks, step 4 (lines 72-78)
Step4(cfg, kept) ==
    IF Truthy(cfg.threshold)
    THEN SelectSeq2(kept, [i \in 1..Len(kept) |-> kept[i].score >= cfg.threshold[1]])
    ELSE kept

\* SourceCitation(...): relevance_score is Field(ge=0.0, le=1.0)
CitationValid(result) == result.score >= 0 /\ result.score <= 100

Citation(result) ==
    [document_id |-> result.metadata.doc_id,
     filename |-> result.metadata.source_filename,
     page_number |-> result.metadata.page_number,
     chunk_index |-> result.metadata.chunk_index,
     chunk_text |-> result.metadata.text,
     relevance_score |-> result.score]

\* _convert_to_source_citations: a result whose citation does not validate
\* is skipped (lines 224-230)
_convert_to_source_citations(results) ==
    LET valid == SelectSeq2(results, [i \in 1..Len(results) |-> CitationValid(results[i])])
    IN [i \in 1..Len(valid) |-> Citation(valid[i])]

NoFilters == << >>
Queries == { << >>, <<" "," ">>, <<"m","l","?">>,
             <<"a"," ","d","r","o","p"," ","b">> }
Filters == { NoFilters, [doc_id |-> "d1"], [user_id |-> "userB"] }
Thresholds == { << >>, <<0>>, <<60>>, <<99>> }
Configs == [k : 1..MaxK, rerank : BOOLEAN, filters : Filters, threshold : Thresholds]

\* an exception: its class and, for ExternalServiceError, its service
Error(type, service) == [type |-> type, service |-> service]
NoError == Error("none", "none")
RetrievalError == Error("RetrievalError", "none")

Returned(value) == [kind |-> "returned", value |-> value, error |-> NoError]
Raised(error) == [kind |-> "raised", value |-> << >>, error |-> error]
Pending == [kind |-> "pending", value |-> << >>, error |-> NoError]

RetrievalIdle ==
    /\ query = << >> /\ user_id = "userA"
    /\ config = [k |-> 1, rerank |-> FALSE, filters |-> NoFilters, threshold |-> << >>]
    /\ index = {} /\ model = "None" /\ r_pc = "idle"
    /\ embed_calls = 0 /\ search_calls = 0 /\ filter_sent = << >>
    /\ search_results = << >> /\ reranked_results = << >> /\ r_outcome = Pending
    /\ r_failure = "none"

ContextIdle ==
    /\ context_chunks = << >> /\ max_context_length = 0
    /\ f_pc = "idle" /\ formatted_context = << >>

EmbedIdle ==
    /\ texts = << >> /\ single = FALSE /\ e_pc = "idle" /\ batch_start = 0
    /\ attempt = 0 /\ all_embeddings = << >> /\ provider_log = << >>
    /\ sleep_log = << >> /\ e_outcome = Pending

RerankIdle ==
    /\ k_op = "rerank" /\ k_model = "None" /\ k_candidates = << >>
    /\ k_documents = << >> /\ k_top_k = << >> /\ k_pc = "idle"
    /\ k_batch_start = 0 /\ k_scores = << >> /\ k_predict_raised = FALSE
    /\ k_outcome = Pending

ChunkIdle ==
    /\ c_raw = << >> /\ c_text = << >> /\ chunk_size = 1 /\ chunk_overlap = 0
    /\ extra_info = "encoding" /\ c_start = 0 /\ c_end = 0 /\ c_chunk_index = 0
    /\ c_chunks = << >> /\ c_pc = "idle" /\ c_prev_start = -1 /\ c_failed = FALSE
    /\ c_outcome = Pending

GetContextIdle ==
    g_outcome = Pending

IngestIdle ==
    /\ i_doc = [exists |-> FALSE, ingestion_status |-> "pending", is_indexed |-> FALSE]
    /\ i_jobs = << >> /\ i_tasks = << >> /\ i_index = {}
    /\ i_delete_pc = "idle" /\ i_delete_outcome = "none"

SharedRerankerIdle ==
    /\ m_constructed = [model |-> "None", model_name |-> "none"]
    /\ m_model = "None" /\ m_model_name = "none"
    /\ m_calls = << >> /\ m_update = << >>

SnippetIdle ==
    /\ s_text = << >> /\ s_pc = "idle" /\ s_snippet = << >>

EmbedMetaIdle ==
    /\ w_chunks = << >> /\ w_pc = "idle" /\ w_outcome = Pending

ConnectionsIdle ==
    /\ n_active = << >> /\ n_sockets = << >>

\* the state at the entry of retrieve_relevant_chunks
InitRetrieval ==
    /\ query \in Queries
    /\ user_id \in Users
    /\ config \in Configs
    /\ index \in SUBSET VectorPool
    /\ model \in {"loaded", "None"}
    /\ r_pc = "embed"
    /\ embed_calls = 0 /\ search_calls = 0 /\ filter_sent = << >>
    /\ search_results = << >> /\ reranked_results = << >> /\ r_outcome = Pending
    /\ r_failure = "none"
    /\ ContextIdle /\ EmbedIdle /\ RerankIdle /\ ChunkIdle /\ GetContextIdle /\ IngestIdle /\ SharedRerankerIdle /\ SnippetIdle /\ EmbedMetaIdle /\ ConnectionsIdle

\* step 1 (line 45): generate_single_embedding answers with the query vector
EmbedQuery ==
    /\ r_pc = "embed"
    /\ embed_calls' = embed_calls + 1
    /\ r_pc' = "search"
    /\ UNCHANGED <<query, user_id, config, index, model, search_calls, filter_sent,
                   search_results, reranked_results, r_outcome, r_failure, fvars, evars, kvars, cvars, gvars, ivars, mvars, svars, wvars, nvars>>

\* step 1 fails: the except of line 97 raises RetrievalError
EmbedQueryFails ==
    /\ r_pc = "embed"
    /\ embed_calls' = embed_calls + 1
    /\ r_pc' = "done"
    /\ r_outcome' = Raised(RetrievalError)
    /\ r_failure' = "embedding"
    /\ UNCHANGED <<query, user_id, config, index, model, search_calls, filter_sent,
                   search_results, reranked_results, fvars, evars, kvars, cvars, gvars, ivars, mvars, svars, wvars, nvars>>

\* steps 2 to 5 (lines 48-95): the index answers, then the candidates are
\* reranked, filtered and converted
VectorSearch ==
    /\ r_pc = "search"
    /\ LET f == user_filter(user_id, config.filters)
           found == search_vectors(index, initial_k(config), f)
           kept == Step3(query, config, found)
       IN /\ filter_sent' = <<f>>
          /\ search_results' = found
          /\ IF found = << >>
             THEN /\ reranked_results' = << >>
                  /\ r_outcome' = Returned(<< >>)
             ELSE /\ reranked_results' = kept
                  /\ r_outcome' = Returned(_convert_to_source_citations(Step4(config, kept)))
    /\ search_calls' = search_calls + 1
    /\ r_pc' = "done"
    /\ UNCHANGED <<query, user_id, config, index, model, embed_calls, r_failure,
                   fvars, evars, kvars, cvars, gvars, ivars, mvars, svars, wvars, nvars>>

\* step 2 fails: _perform_vector_search raises RetrievalError (line 137),
\* which line 104 wraps in another RetrievalError
VectorSearchFails ==
    /\ r_pc = "search"
    /\ filter_sent' = <<user_filter(user_id, config.filters)>>
    /\ search_calls' = search_calls + 1
    /\ r_pc' = "done"
    /\ r_outcome' = Raised(RetrievalError)
    /\ r_failure' = "vector_index"
    /\ UNCHANGED <<query, user_id, config, index, model, embed_calls,
                   search_results, reranked_results, fvars, evars, kvars, cvars, gvars, ivars, mvars, svars, wvars, nvars>>

NextRetrieval == EmbedQuery \/ EmbedQueryFails \/ VectorSearch \/ VectorSearchFails

SpecRetrieval == InitRetrieval /\ [][NextRetrieval]_vars

(***************************************************************************)
(* Properties of retrieve_relevant_chunks                                  *)
(***************************************************************************)
\* the scope under which a document's vectors were stored
DocOwner(doc) == (CHOOSE v \in VectorPool : v.metadata.doc_id = doc).metadata.user_id

\* C1: the filter handed to the vector index always has user_id equal to the
\* caller's user_id, whatever config.filters holds, and so no returned
\* citation is of a document stored under another user's scope.
C1_ScopeFilterIsCallers ==
    /\ filter_sent # << >> => filter_sent[1].user_id = user_id
    /\ r_outcome.kind = "returned" =>
          \A i \in 1..Len(r_outcome.value) :
              DocOwner(r_outcome.value[i].document_id) = user_id

\* C2: with rerank requested, a model loaded and more than k candidates, the
\* k candidates kept are those with the highest reranker scores, in
\* descending reranker score, each carrying its reranker score.
C2_KeepsTopKByRerankScore ==
    (/\ r_pc = "done" /\ r_outcome.kind = "returned"
     /\ config.rerank /\ model = "loaded"
     /\ Len(search_results) > config.k)
    => /\ Len(reranked_results) = config.k
       /\ \A i \in 1..Len(reranked_results) :
             reranked_results[i].score = predict(query, reranked_results[i].metadata.text)
       /\ \A i \in 1..(Len(reranked_results) - 1) :
             reranked_results[i].score >= reranked_results[i + 1].score
       /\ \A j \in 1..Len(search_results) :
             (\A i \in 1..Len(reranked_results) : reranked_results[i].id # search_results[j].id)
             => \A i \in 1..Len(reranked_results) :
                    reranked_results[i].score >= predict(query, search_results[j].metadata.text)

\* C3: with a threshold set, the citations returned are exactly the kept
\* candidates whose score is at least the threshold, in kept order, the
\* score being the one the vector index gave when reranking did not run.
C3_ThresholdKeepsExactlyScoresAtLeast ==
    (/\ r_pc = "done" /\ r_outcome.kind = "returned"
     /\ config.threshold # << >> /\ search_results # << >>)
    => LET AtLeast(result) == result.score >= config.threshold[1]
           expected == SelectSeq(reranked_results, AtLeast)
       IN /\ Len(r_outcome.value) = Len(expected)
          /\ \A i \in 1..Len(expected) :
                /\ r_outcome.value[i].document_id = expected[i].metadata.doc_id
                /\ r_outcome.value[i].chunk_text = expected[i].metadata.text
                /\ r_outcome.value[i].relevance_score = expected[i].score
                /\ r_outcome.value[i].relevance_score >= config.threshold[1]
                /\ \E v \in index : v.id = expected[i].id /\ v.score = expected[i].score

\* C3 witness: two candidates kept, the threshold drops one of them
C3_Witness ==
    /\ r_pc = "done" /\ r_outcome.kind = "returned"
    /\ config.threshold = <<60>>
    /\ Len(reranked_results) = 2
    /\ Len(r_outcome.value) = 1
    /\ r_outcome.value[1].relevance_score = 60

\* C4: an empty, blank or suspicious query makes no call to the embedding
\* provider or to the vector index, and the call returns the empty list.
C4_InvalidQueryReturnsEmptyWithoutCalls ==
    ~validate_query(query) =>
        /\ embed_calls = 0
        /\ search_calls = 0
        /\ r_pc = "done" => r_outcome = Returned(<< >>)

(***************************************************************************)
(* RetrievalService._format_context_for_llm                                *)
(***************************************************************************)
NoContextText == <<"N","o"," ","r","e","l","e","v","a","n","t"," ",
                   "c","o","n","t","e","x","t"," ","f","o","u","n","d",".">>

\* Optional[int] page_number: None and 0 are falsy (line 446)
PageSuffix(page_number) ==
    IF page_number # << >> /\ page_number[1] # 0
    THEN <<" ","-"," ","P","a","g","e"," ">> \o Str(page_number[1])
    ELSE << >>

\* lines 444-448
source_info(chunk) ==
    <<"[","S","o","u","r","c","e",":"," ">> \o chunk.source.filename
        \o PageSuffix(chunk.source.page_number) \o <<"]">>

\* line 450: the block of one chunk
chunk_text(chunk) == source_info(chunk) \o <<"\n">> \o chunk.text

\* the loop with continue in the place of break
RECURSIVE FormatLoop_continue(_, _, _, _)
FormatLoop_continue(chunks, limit, formatted_parts, current_length) ==
    IF chunks = << >> THEN formatted_parts
    ELSE LET block == chunk_text(Head(chunks))
         IN IF current_length + Len(block) > limit
            THEN FormatLoop_continue(Tail(chunks), limit, formatted_parts, current_length)
            ELSE FormatLoop_continue(Tail(chunks), limit, Append(formatted_parts, block),
                                     current_length + Len(block))

\* the loop of lines 443-457
RECURSIVE FormatLoop(_, _, _, _)
FormatLoop(chunks, limit, formatted_parts, current_length) ==
    IF chunks = << >> THEN formatted_parts
    ELSE LET block == chunk_text(Head(chunks))
         IN IF current_length + Len(block) > limit
            THEN formatted_parts
            ELSE FormatLoop(Tail(chunks), limit, Append(formatted_parts, block),
                            current_length + Len(block))

_format_context_for_llm(chunks, limit) ==
    IF chunks = << >> THEN NoContextText
    ELSE Join(<<"\n","\n">>, FormatLoop(chunks, limit, << >>, 0))

ChunkKinds ==
    [text : { << >>, <<"x","y","z">> },
     source : [filename : { <<"a">> }, page_number : { << >>, <<0>>, <<12>> }]]

SeqsUpTo(S, n) == UNION { [1..m -> S] : m \in 0..n }

\* the state at the entry of _format_context_for_llm
InitContext ==
    /\ context_chunks \in SeqsUpTo(ChunkKinds, MaxChunks)
    /\ max_context_length \in 0..MaxBudget
    /\ f_pc = "call"
    /\ formatted_context = << >>
    /\ RetrievalIdle /\ EmbedIdle /\ RerankIdle /\ ChunkIdle /\ GetContextIdle /\ IngestIdle /\ SharedRerankerIdle /\ SnippetIdle /\ EmbedMetaIdle /\ ConnectionsIdle

FormatContext ==
    /\ f_pc = "call"
    /\ formatted_context' = _format_context_for_llm(context_chunks, max_context_length)
    /\ f_pc' = "done"
    /\ UNCHANGED <<context_chunks, max_context_length, rvars, evars, kvars, cvars, gvars, ivars, mvars, svars, wvars, nvars>>

NextContext == FormatContext

SpecContext == InitContext /\ [][NextContext]_vars

\* C5: for a non-empty list of chunks the formatted context, separators
\* included, is never longer than max_context_length.
C5_ContextWithinBudget ==
    (f_pc = "done" /\ context_chunks # << >>)
    => Len(formatted_context) <= max_context_length

\* C6: the formatted context is the whole blocks of a prefix of the chunks,
\* joined in order; the prefix ends before the first block whose addition
\* would pass the budget, and no later block is included.
C6_ContextIsWholePrefix ==
    (f_pc = "done" /\ context_chunks # << >>)
    => \E n \in 0..Len(context_chunks) :
          LET blocks == [i \in 1..Len(context_chunks) |->
                            source_info(context_chunks[i]) \o <<"\n">>
                                \o context_chunks[i].text]
          IN /\ formatted_context = Join(<<"\n","\n">>, SubSeq(blocks, 1, n))
             /\ SumLen(SubSeq(blocks, 1, n)) <= max_context_length
             /\ n < Len(context_chunks)
                   => SumLen(SubSeq(blocks, 1, n + 1)) > max_context_length

\* C6 witness: the second block does not fit, the third would, and only the
\* first is included
C6_Witness ==
    /\ f_pc = "done"
    /\ Len(context_chunks) = 3
    /\ formatted_context = chunk_text(context_chunks[1])
    /\ Len(chunk_text(context_chunks[1])) + Len(chunk_text(context_chunks[2]))
          > max_context_length
    /\ Len(chunk_text(context_chunks[1])) + Len(chunk_text(context_chunks[3]))
          <= max_context_length

(***************************************************************************)
(* EmbeddingService                                                        *)
(***************************************************************************)
\* self.batch_size is 100 in the source; the model runs it scaled down so
\* that a short list spans several batches
batch_size == 2
max_retries == 3
retry_delay == 100
inter_batch_delay == 10
dimension == 1536
OtherDimension == dimension \div 2

\* the provider's embedding of one text
ProviderEmbedding(text, dim) == [of |-> text, dim |-> dim]

\* line 54: texts[i:i + self.batch_size]
Batch(ts, i) == Slice(ts, i, i + batch_size)

\* line 112: one embedding for each input of the request, in input order
ResponseEmbeddings(batch, dim) ==
    [j \in 1..Len(batch) |-> ProviderEmbedding(batch[j], dim)]

\* line 115: the dimension check looks at the first embedding
DimensionMismatch(embeddings) ==
    embeddings # << >> /\ embeddings[1].dim # dimension

\* all_embeddings.extend putting the batch in front
Extend_front(all, batch_embeddings) == batch_embeddings \o all

\* line 60: all_embeddings.extend(batch_embeddings)
Extend(all, batch_embeddings) == all \o batch_embeddings

\* a backoff that doubles once too often
BackoffDelay_next(a) == retry_delay * 2 ^ (a + 1)

\* line 140: retry_delay * (2 ** attempt)
BackoffDelay(a) == retry_delay * 2 ^ a

\* lines 143-146
BatchExhaustedError == Error("ExternalServiceError", "openai")

\* lines 74-83: every exception leaves generate_embeddings as EmbeddingError
WrapInEmbeddingError(e) == Error("EmbeddingError", "none")

\* generate_single_embedding, line 92
SingleResult(embeddings) == IF embeddings # << >> THEN embeddings[1] ELSE << >>

CallRecord(ok, kind) ==
    [batch_index |-> batch_start \div batch_size, attempt |-> attempt,
     input |-> Batch(texts, batch_start), ok |-> ok, kind |-> kind]

SleepRecord(kind, delay) ==
    [kind |-> kind, delay |-> delay, after |-> Len(provider_log)]

TextValues == {"a", "b"}

\* the state at the entry of generate_embeddings, reached directly or
\* through generate_single_embedding (line 91)
InitEmbed ==
    /\ texts \in SeqsUpTo(TextValues, MaxTexts)
    /\ single \in BOOLEAN
    /\ single => Len(texts) = 1
    /\ e_pc = "call"
    /\ batch_start = 0 /\ attempt = 0
    /\ all_embeddings = << >> /\ provider_log = << >> /\ sleep_log = << >>
    /\ e_outcome = Pending
    /\ RetrievalIdle /\ ContextIdle /\ RerankIdle /\ ChunkIdle /\ GetContextIdle /\ IngestIdle /\ SharedRerankerIdle /\ SnippetIdle /\ EmbedMetaIdle /\ ConnectionsIdle

\* lines 39-40: the empty list returns at once
EmbedEmpty ==
    /\ e_pc = "call" /\ texts = << >>
    /\ e_pc' = "done"
    /\ e_outcome' = Returned(<< >>)
    /\ UNCHANGED <<texts, single, batch_start, attempt, all_embeddings,
                   provider_log, sleep_log, rvars, fvars, kvars, cvars, gvars, ivars, mvars, svars, wvars, nvars>>

\* lines 52-55: the loop starts with the batch at 0
EmbedStart ==
    /\ e_pc = "call" /\ texts # << >>
    /\ e_pc' = "attempt"
    /\ UNCHANGED <<texts, single, batch_start, attempt, all_embeddings,
                   provider_log, sleep_log, e_outcome, rvars, fvars, kvars, cvars, gvars, ivars, mvars, svars, wvars, nvars>>

\* lines 105-127 and 60-72: the provider answers with vectors of the
\* configured dimension; the batch is done
ProviderAnswers ==
    /\ e_pc = "attempt"
    /\ LET embeddings == ResponseEmbeddings(Batch(texts, batch_start), dimension)
           gathered == Extend(all_embeddings, embeddings)
       IN /\ ~DimensionMismatch(embeddings)
          /\ all_embeddings' = gathered
          /\ IF batch_start + batch_size < Len(texts)
             THEN /\ e_pc' = "batch_sleep"
                  /\ UNCHANGED e_outcome
             ELSE /\ e_pc' = "done"
                  /\ e_outcome' = Returned(IF single THEN SingleResult(gathered)
                                           ELSE gathered)
    /\ provider_log' = Append(provider_log, CallRecord(TRUE, "ok"))
    /\ UNCHANGED <<texts, single, batch_start, attempt, sleep_log, rvars, fvars, kvars, cvars, gvars, ivars, mvars, svars, wvars, nvars>>

\* lines 63-64 and 53: the wait between two batches, then the next batch
InterBatchSleep ==
    /\ e_pc = "batch_sleep"
    /\ sleep_log' = Append(sleep_log, SleepRecord("batch", inter_batch_delay))
    /\ batch_start' = batch_start + batch_size
    /\ attempt' = 0
    /\ e_pc' = "attempt"
    /\ UNCHANGED <<texts, single, all_embeddings, provider_log, e_outcome, rvars, fvars, kvars, cvars, gvars, ivars, mvars, svars, wvars, nvars>>

\* a failed batch that is skipped: the loop goes on with the next batch
AttemptFailed_swallow(kind) ==
    /\ provider_log' = Append(provider_log, CallRecord(FALSE, kind))
    /\ IF attempt < max_retries - 1
       THEN /\ e_pc' = "backoff"
            /\ UNCHANGED e_outcome
       ELSE IF batch_start + batch_size < Len(texts)
       THEN /\ e_pc' = "batch_sleep"
            /\ UNCHANGED e_outcome
       ELSE /\ e_pc' = "done"
            /\ e_outcome' = Returned(all_embeddings)
    /\ UNCHANGED <<texts, single, batch_start, attempt, all_embeddings, sleep_log,
                   rvars, fvars, kvars, cvars, gvars, ivars, mvars, svars, wvars, nvars>>

\* lines 129-146 and 74-83: what follows a failed attempt
AttemptFailed(kind) ==
    /\ provider_log' = Append(provider_log, CallRecord(FALSE, kind))
    /\ IF attempt < max_retries - 1
       THEN /\ e_pc' = "backoff"
            /\ UNCHANGED e_outcome
       ELSE /\ e_pc' = "done"
            /\ e_outcome' = Raised(WrapInEmbeddingError(BatchExhaustedError))
    /\ UNCHANGED <<texts, single, batch_start, attempt, all_embeddings, sleep_log,
                   rvars, fvars, kvars, cvars, gvars, ivars, mvars, svars, wvars, nvars>>

\* line 105 raises: quota, timeout, invalid input
ProviderFails ==
    /\ e_pc = "attempt"
    /\ AttemptFailed("provider_error")

\* lines 115-118: the answer has another dimension; the EmbeddingError is
\* raised inside the try and caught by line 129 like a provider failure
ProviderAnswersOtherDimension ==
    /\ e_pc = "attempt"
    /\ DimensionMismatch(ResponseEmbeddings(Batch(texts, batch_start), OtherDimension))
    /\ AttemptFailed("dimension_mismatch")

\* lines 139-140 and 103: the backoff wait, then the next attempt
Backoff ==
    /\ e_pc = "backoff"
    /\ sleep_log' = Append(sleep_log, SleepRecord("backoff", BackoffDelay(attempt)))
    /\ attempt' = attempt + 1
    /\ e_pc' = "attempt"
    /\ UNCHANGED <<texts, single, batch_start, all_embeddings, provider_log,
                   e_outcome, rvars, fvars, kvars, cvars, gvars, ivars, mvars, svars, wvars, nvars>>

NextEmbed ==
    \/ EmbedEmpty \/ EmbedStart \/ ProviderAnswers \/ InterBatchSleep
    \/ ProviderFails \/ ProviderAnswersOtherDimension \/ Backoff

SpecEmbed == InitEmbed /\ [][NextEmbed]_vars

(***************************************************************************)
(* Properties of generate_embeddings                                       *)
(***************************************************************************)
\* C7: a successful generate_embeddings returns one vector for each input
\* text, the vector at position i being the provider's embedding of
\* texts[i], also when the list spans several batches.
C7_OneEmbeddingPerTextInOrder ==
    (e_pc = "done" /\ e_outcome.kind = "returned" /\ ~single)
    => /\ Len(e_outcome.value) = Len(texts)
       /\ \A i \in 1..Len(texts) :
             e_outcome.value[i] = ProviderEmbedding(texts[i], dimension)

\* C7 witness: a list spanning several batches, whose batches start with
\* different texts, succeeded
C7_Witness ==
    /\ e_pc = "done" /\ e_outcome.kind = "returned" /\ ~single
    /\ Len(texts) > batch_size
    /\ texts[1] # texts[batch_size + 1]
    /\ Len(e_outcome.value) = Len(texts)

\* C8: the provider receives the batches one at a time in input order, batch
\* j+1 only after batch j has succeeded; once a batch has failed on all its
\* attempts nothing more is submitted and the call raises, returning none of
\* the embeddings already obtained.
C8_BatchesInOrderAndNoPartialResult ==
    /\ \A n \in 1..Len(provider_log) :
          /\ provider_log[n].input =
                SubSeq(texts, provider_log[n].batch_index * batch_size + 1,
                       Min(Len(texts), (provider_log[n].batch_index + 1) * batch_size))
          /\ n = 1 => provider_log[n].batch_index = 0
          /\ n > 1 =>
                \/ /\ provider_log[n].batch_index = provider_log[n - 1].batch_index
                   /\ ~provider_log[n - 1].ok
                \/ /\ provider_log[n].batch_index = provider_log[n - 1].batch_index + 1
                   /\ provider_log[n - 1].ok
          /\ (~provider_log[n].ok /\ provider_log[n].attempt = max_retries - 1)
                => /\ n = Len(provider_log)
                   /\ e_pc = "done"
                   /\ e_outcome.kind = "raised"
                   /\ e_outcome.value = << >>
    /\ e_outcome.kind = "returned" =>
          \A n \in 1..Len(provider_log) :
              provider_log[n].ok \/ provider_log[n].attempt < max_retries - 1

\* C8 witness: the first batch succeeded, the second failed on all its
\* attempts and the call raised
C8_Witness ==
    /\ e_pc = "done" /\ e_outcome.kind = "raised"
    /\ Len(texts) > batch_size
    /\ Len(provider_log) = 1 + max_retries
    /\ provider_log[1].ok
    /\ all_embeddings # << >>

\* C9: a batch is submitted at most max_retries times; a success ends its
\* retries; failed attempt a that is not the last is followed by a wait of
\* retry_delay * 2^a before the next attempt; no wait follows the last
\* failed attempt, after which the batch fails.
C9_BoundedRetriesWithBackoff ==
    /\ \A n \in 1..Len(provider_log) :
          /\ provider_log[n].attempt < max_retries
          /\ (provider_log[n].ok /\ n < Len(provider_log))
                => /\ provider_log[n + 1].batch_index # provider_log[n].batch_index
                   /\ provider_log[n + 1].attempt = 0
          /\ (~provider_log[n].ok /\ n < Len(provider_log))
                => /\ provider_log[n + 1].batch_index = provider_log[n].batch_index
                   /\ provider_log[n + 1].attempt = provider_log[n].attempt + 1
                   /\ \E m \in 1..Len(sleep_log) :
                         /\ sleep_log[m].after = n
                         /\ sleep_log[m].kind = "backoff"
                         /\ sleep_log[m].delay =
                               retry_delay * 2 ^ provider_log[n].attempt
          /\ (~provider_log[n].ok /\ provider_log[n].attempt = max_retries - 1)
                => /\ e_outcome.kind = "raised"
                   /\ \A m \in 1..Len(sleep_log) : sleep_log[m].after # n
    /\ \A m \in 1..Len(sleep_log) :
          sleep_log[m].kind = "backoff" =>
              /\ ~provider_log[sleep_log[m].after].ok
              /\ provider_log[sleep_log[m].after].attempt < max_retries - 1
              /\ sleep_log[m].delay =
                    retry_delay * 2 ^ provider_log[sleep_log[m].after].attempt
              /\ \A m2 \in 1..Len(sleep_log) :
                    sleep_log[m2].after = sleep_log[m].after => m2 = m

\* C9 witness: a batch failed twice, waited 1 s then 2 s, and succeeded on
\* its last attempt
C9_Witness ==
    /\ Len(provider_log) = 3
    /\ ~provider_log[1].ok /\ ~provider_log[2].ok /\ provider_log[3].ok
    /\ Len(sleep_log) >= 2
    /\ sleep_log[1].delay = retry_delay /\ sleep_log[2].delay = 2 * retry_delay

\* C10: when a batch has failed on all its attempts, the caller of
\* generate_embeddings or generate_single_embedding receives an
\* ExternalServiceError that names the provider.
C10_ExhaustionRaisesExternalServiceError ==
    (e_pc = "done" /\ e_outcome.kind = "raised")
    => /\ e_outcome.error.type = "ExternalServiceError"
       /\ e_outcome.error.service = "openai"

\* C11: an answer whose vectors have another length than the configured
\* dimension fails the batch on that attempt: no further call for the batch
\* and no backoff wait follow it.
C11_DimensionMismatchIsNotRetried ==
    \A n \in 1..Len(provider_log) :
        provider_log[n].kind = "dimension_mismatch"
        => /\ n = Len(provider_log)
           /\ \A m \in 1..Len(sleep_log) : sleep_log[m].after # n

\* ---------------------------------------------------------------------
\* RerankerService.rerank and rerank_with_metadata
\* ---------------------------------------------------------------------

MaxCandidates == 3
MaxTopK == 2
\* self.batch_size of the reranker (16 in the source, scaled down)
rerank_batch_size == 2

neutral_score == 50

\* [0.5] * n with 0 in place of 0.5
NeutralScores_zero(n) == [i \in 1..n |-> 0]

\* [0.5] * n
NeutralScores(n) == [i \in 1..n |-> neutral_score]

Candidate(id, score, text) ==
    [id |-> id, score |-> score, metadata |-> [text |-> text]]

\* c2 and c3 get the same score from the model
CandidatePool ==
    { Candidate("c1", 90, TextML), Candidate("c2", 60, TextAI),
      Candidate("c3", 30, TextAI), Candidate("c4", 40, <<"x">>) }

RerankQuery == <<"m","l","?">>

\* documents of rerank_with_metadata: the text of each result
DocumentsOf(results) ==
    [i \in 1..Len(results) |-> results[i].metadata.text]

\* result.copy() updated with the rerank fields
WithRerankFields(result, score) ==
    [id |-> result.id, score |-> result.score, metadata |-> result.metadata,
     rerank_score |-> score,
     original_score |-> result.score,
     score_improvement |-> score - result.score,
     reranked |-> TRUE]

\* the loop over results: a result is kept when i < len(scores)
RerankedLoop(results, scores) ==
    [i \in 1..Min(Len(results), Len(scores)) |->
        WithRerankFields(results[i], scores[i])]

\* insertion that puts x before the elements of equal rerank_score
InsertByRerankScore_front(sorted, x) ==
    LET k == Cardinality({ i \in 1..Len(sorted) :
                             sorted[i].rerank_score > x.rerank_score })
    IN SubSeq(sorted, 1, k) \o <<x>> \o SubSeq(sorted, k + 1, Len(sorted))

\* x goes after every element whose rerank_score is >= its own
InsertByRerankScore(sorted, x) ==
    LET k == Cardinality({ i \in 1..Len(sorted) :
                             sorted[i].rerank_score >= x.rerank_score })
    IN SubSeq(sorted, 1, k) \o <<x>> \o SubSeq(sorted, k + 1, Len(sorted))

\* list.sort(key = rerank_score, reverse = True): stable
RECURSIVE SortByRerankScore(_)
SortByRerankScore(s) ==
    IF s = << >> THEN << >>
    ELSE InsertByRerankScore(SortByRerankScore(SubSeq(s, 1, Len(s) - 1)), s[Len(s)])

\* rerank_with_metadata from the scores returned by rerank
RerankedTopK(results, scores, top_k) ==
    LET reranked == RerankedLoop(results, scores)
        target_k == IF Truthy(top_k) THEN top_k[1] ELSE Len(reranked)
    IN Take(SortByRerankScore(reranked), target_k)

\* what the call returns once rerank has produced scores
RerankFinish(scores) ==
    /\ k_pc' = "done"
    /\ k_outcome' = IF k_op = "rerank" THEN Returned(scores)
                    ELSE Returned(RerankedTopK(k_candidates, scores, k_top_k))

TopKs == { << >> } \cup { <<n>> : n \in 1..MaxTopK }

InitRerank ==
    /\ k_op \in {"rerank", "rerank_with_metadata"}
    /\ k_model \in {"loaded", "None"}
    /\ k_candidates \in SeqsUpTo(CandidatePool, MaxCandidates)
    /\ k_documents = IF k_op = "rerank" THEN DocumentsOf(k_candidates) ELSE << >>
    /\ k_top_k \in TopKs
    /\ k_pc = "call"
    /\ k_batch_start = 0
    /\ k_scores = << >>
    /\ k_predict_raised = FALSE
    /\ k_outcome = Pending
    /\ RetrievalIdle /\ ContextIdle /\ EmbedIdle /\ ChunkIdle /\ GetContextIdle /\ IngestIdle /\ SharedRerankerIdle /\ SnippetIdle /\ EmbedMetaIdle /\ ConnectionsIdle

\* rerank up to the call of _predict_scores
RerankCall ==
    /\ k_pc = "call" /\ k_op = "rerank"
    /\ IF k_model = "None"
       THEN /\ k_pc' = "done"
            /\ k_outcome' = Returned(NeutralScores(Len(k_documents)))
       ELSE IF k_documents = << >>
       THEN /\ k_pc' = "done"
            /\ k_outcome' = Returned(<< >>)
       ELSE /\ k_pc' = "predict"
            /\ UNCHANGED k_outcome
    /\ UNCHANGED <<k_op, k_model, k_candidates, k_documents, k_top_k, k_batch_start,
                   k_scores, k_predict_raised, rvars, fvars, evars, cvars, gvars, ivars, mvars, svars, wvars, nvars>>

\* rerank_with_metadata up to the call of _predict_scores inside rerank
RerankWithMetadataCall ==
    /\ k_pc = "call" /\ k_op = "rerank_with_metadata"
    /\ IF k_model = "None" \/ k_candidates = << >>
       THEN /\ k_pc' = "done"
            /\ k_outcome' = Returned(k_candidates)
            /\ UNCHANGED k_documents
       ELSE /\ k_documents' = DocumentsOf(k_candidates)
            /\ k_pc' = "predict"
            /\ UNCHANGED k_outcome
    /\ UNCHANGED <<k_op, k_model, k_candidates, k_top_k, k_batch_start,
                   k_scores, k_predict_raised, rvars, fvars, evars, cvars, gvars, ivars, mvars, svars, wvars, nvars>>

\* one iteration of the loop of _predict_scores: predict, extend, sleep
PredictBatch ==
    /\ k_pc = "predict"
    /\ LET batch == Slice(k_documents, k_batch_start, k_batch_start + rerank_batch_size)
           all_scores == k_scores \o [i \in 1..Len(batch) |-> predict(RerankQuery, batch[i])]
       IN /\ k_scores' = all_scores
          /\ IF k_batch_start + rerank_batch_size < Len(k_documents)
             THEN /\ k_batch_start' = k_batch_start + rerank_batch_size
                  /\ UNCHANGED <<k_pc, k_outcome>>
             ELSE /\ UNCHANGED k_batch_start
                  /\ RerankFinish(all_scores)
    /\ UNCHANGED <<k_op, k_model, k_candidates, k_documents, k_top_k,
                   k_predict_raised, rvars, fvars, evars, cvars, gvars, ivars, mvars, svars, wvars, nvars>>

\* self.model.predict raises: _predict_scores raises ExternalServiceError,
\* the except of rerank returns the neutral scores
PredictRaises ==
    /\ k_pc = "predict"
    /\ k_predict_raised' = TRUE
    /\ RerankFinish(NeutralScores(Len(k_documents)))
    /\ UNCHANGED <<k_op, k_model, k_candidates, k_documents, k_top_k, k_batch_start,
                   k_scores, rvars, fvars, evars, cvars, gvars, ivars, mvars, svars, wvars, nvars>>

NextRerank == RerankCall \/ RerankWithMetadataCall \/ PredictBatch \/ PredictRaises

SpecRerank == InitRerank /\ [][NextRerank]_vars

RerankWithMetadataDone == k_op = "rerank_with_metadata" /\ k_pc = "done"

\* C12: when predict raises during rerank_with_metadata, the call returns
\* exactly the candidate list it was given, nothing added, nothing cut.
C12_PredictFailureReturnsInputUnchanged ==
    (RerankWithMetadataDone /\ k_predict_raised)
    => k_outcome = Returned(k_candidates)

\* the score rerank gave the n-th candidate of the call
RerankScoreGiven(n) ==
    IF k_predict_raised THEN 50
    ELSE predict(RerankQuery, k_candidates[n].metadata.text)

\* candidate a comes before candidate b in the order of the claim
RankedBefore(a, b) ==
    \/ RerankScoreGiven(a) > RerankScoreGiven(b)
    \/ RerankScoreGiven(a) = RerankScoreGiven(b) /\ a < b

C14_NoModelGivesNeutralRerankScores ==
    (RerankWithMetadataDone /\ k_model = "None")
    => LET out == k_outcome.value
           n == Len(k_candidates)
       IN /\ k_outcome.kind = "returned"
          /\ Len(out) = IF k_top_k = << >> THEN n ELSE Min(k_top_k[1], n)
          /\ \A i \in 1..Len(out) :
                /\ out[i].id = k_candidates[i].id
                /\ {"rerank_score", "original_score"} \subseteq DOMAIN out[i]
                /\ out[i].rerank_score = 50
                /\ out[i].original_score = k_candidates[i].score

\* C15: with no model loaded, rerank returns len(documents) scores, all 0.5,
\* for the empty list too, and does not raise.
C15_NoModelRerankReturnsNeutralScores ==
    (k_op = "rerank" /\ k_pc = "done" /\ k_model = "None")
    => /\ k_outcome.kind = "returned"
       /\ Len(k_outcome.value) = Len(k_documents)
       /\ \A i \in 1..Len(k_documents) : k_outcome.value[i] = 50

C15_Witness ==
    /\ k_op = "rerank" /\ k_pc = "done" /\ k_model = "None"
    /\ Len(k_documents) >= 2
    /\ k_outcome = Returned(<<50>> \o [i \in 1..(Len(k_documents) - 1) |-> 50])

\* ---------------------------------------------------------------------
\* DocumentProcessor._create_chunks
\* ---------------------------------------------------------------------

MaxTextLen == 4
MaxChunkSize == 3
MaxOverlap == 3

Chars == {"a", "b", " ", "\n"}

\* re.sub(r'\s+', ' ', text)
RECURSIVE CollapseWhitespace(_)
CollapseWhitespace(s) ==
    IF s = << >> THEN << >>
    ELSE LET rest == CollapseWhitespace(Tail(s))
         IN IF IsSpace(Head(s))
            THEN IF rest # << >> /\ rest[1] = " " THEN rest ELSE <<" ">> \o rest
            ELSE <<Head(s)>> \o rest

\* line 367
CleanedText(text) == Strip(CollapseWhitespace(text))

\* text.rfind(ch, start, end): the highest 0-based index in [start, end), or -1
RFind(text, ch, start, end) ==
    LET hits == { i \in start..(Min(end, Len(text)) - 1) : text[i + 1] = ch }
    IN IF hits = {} THEN -1 ELSE CHOOSE i \in hits : \A j \in hits : j <= i

\* end of the window that starts at start (lines 378-385)
WindowEnd(text, start, size) ==
    LET end == start + size
    IN IF end < Len(text)
       THEN LET last_space == RFind(text, " ", start, end)
            IN IF last_space # -1 THEN last_space ELSE end
       ELSE end

\* text[start:end].strip()
WindowText(text, start, end) == Strip(Slice(text, start, end))

\* the char_count of the pages of a PDF given as extra_info["pages"]
PageCharCounts == <<2, 3>>

RECURSIVE SumSeq(_)
SumSeq(s) == IF s = << >> THEN 0 ELSE Head(s) + SumSeq(Tail(s))

\* _get_page_for_chunk
_get_page_for_chunk(start, end, pages) ==
    IF pages = << >> THEN << >>
    ELSE LET total_chars == SumSeq(pages)
         IN IF total_chars = 0 THEN <<1>>
            ELSE LET estimated_page == ((start * Len(pages)) \div total_chars) + 1
                 IN <<Max(1, Min(estimated_page, Len(pages)))>>

\* the dict appended to chunks (lines 392-413); the fields copied from
\* metadata are the same for all chunks and left out
ChunkRecord(chunk_text_, chunk_index, start, end, info) ==
    [text |-> chunk_text_,
     metadata |-> [chunk_index |-> chunk_index,
                   start_char |-> start,
                   end_char |-> end,
                   char_count |-> Len(chunk_text_),
                   page_number |-> IF info = "pages"
                                   THEN _get_page_for_chunk(start, end, PageCharCounts)
                                   ELSE << >>]]

\* chunk_index counted for empty windows too
NextChunkIndex_always(chunk_index, chunk_text_) == chunk_index + 1

\* chunk_index += 1 inside `if chunk_text`
NextChunkIndex(chunk_index, chunk_text_) ==
    IF chunk_text_ # << >> THEN chunk_index + 1 ELSE chunk_index

\* the next start without the step of at least one character
NextStart_stall(start, end, overlap) == Max(start, end - overlap)

\* line 418
NextStart(start, end, overlap) == Max(start + 1, end - overlap)

\* the fallback keeping the chunks built before the failure
FallbackResult_partial(text, built) ==
    built \o << [text |-> text,
                 metadata |-> [chunk_index |-> Len(built), start_char |-> 0,
                               end_char |-> Len(text), char_count |-> Len(text),
                               page_number |-> << >>]] >>

\* the list returned by the except handler (lines 425-438)
FallbackResult(text, built) ==
    << [text |-> text,
        metadata |-> [chunk_index |-> 0, start_char |-> 0,
                      end_char |-> Len(text), char_count |-> Len(text),
                      page_number |-> << >>]] >>

\* extra_info: None, a dict without "pages", a dict with "pages"
ExtraInfos == {"None", "encoding", "pages"}

\* the state at the entry of _create_chunks
InitChunk ==
    /\ c_raw \in SeqsUpTo(Chars, MaxTextLen)
    /\ c_text = c_raw
    /\ chunk_size \in 1..MaxChunkSize
    /\ chunk_overlap \in 0..MaxOverlap
    /\ extra_info \in ExtraInfos
    /\ c_start = 0 /\ c_end = 0 /\ c_chunk_index = 0 /\ c_chunks = << >>
    /\ c_pc = "call" /\ c_prev_start = -1 /\ c_failed = FALSE
    /\ c_outcome = Pending
    /\ RetrievalIdle /\ ContextIdle /\ EmbedIdle /\ RerankIdle /\ GetContextIdle /\ IngestIdle /\ SharedRerankerIdle /\ SnippetIdle /\ EmbedMetaIdle /\ ConnectionsIdle

\* lines 367-376: clean the text, return [] when nothing is left
CleanText ==
    /\ c_pc = "call"
    /\ c_text' = CleanedText(c_text)
    /\ IF c_text' = << >>
       THEN /\ c_pc' = "done"
            /\ c_outcome' = Returned(<< >>)
       ELSE /\ c_pc' = "loop"
            /\ UNCHANGED c_outcome
    /\ UNCHANGED <<c_raw, chunk_size, chunk_overlap, extra_info, c_start, c_end,
                   c_chunk_index, c_chunks, c_prev_start, c_failed,
                   rvars, fvars, evars, kvars, gvars, ivars, mvars, svars, wvars, nvars>>

\* `"pages" in extra_info` raises TypeError when extra_info is None
PagesTestRaises(chunk_text_) == chunk_text_ # << >> /\ extra_info = "None"

\* one iteration of the while loop (lines 376-418) and the loop test after
\* it; the loop left, chunks is returned
ChunkStep ==
    /\ c_pc = "loop"
    /\ LET end == WindowEnd(c_text, c_start, chunk_size)
           chunk_text_ == WindowText(c_text, c_start, end)
           start_ == NextStart(c_start, end, chunk_overlap)
       IN /\ ~PagesTestRaises(chunk_text_)
          /\ c_chunks' = IF chunk_text_ # << >>
                         THEN Append(c_chunks, ChunkRecord(chunk_text_, c_chunk_index,
                                                           c_start, end, extra_info))
                         ELSE c_chunks
          /\ c_chunk_index' = NextChunkIndex(c_chunk_index, chunk_text_)
          /\ c_end' = end
          /\ c_prev_start' = c_start
          /\ c_start' = start_
          /\ IF start_ < Len(c_text)
             THEN UNCHANGED <<c_pc, c_outcome>>
             ELSE /\ c_pc' = "done"
                  /\ c_outcome' = Returned(c_chunks')
    /\ UNCHANGED <<c_raw, c_text, chunk_size, chunk_overlap, extra_info, c_failed,
                   rvars, fvars, evars, kvars, gvars, ivars, mvars, svars, wvars, nvars>>

\* the except handler
Fallback ==
    /\ c_failed' = TRUE
    /\ c_pc' = "done"
    /\ c_outcome' = Returned(FallbackResult(c_text, c_chunks))
    /\ UNCHANGED <<c_raw, c_text, chunk_size, chunk_overlap, extra_info, c_start, c_end,
                   c_chunk_index, c_chunks, c_prev_start, rvars, fvars, evars, kvars, gvars, ivars, mvars, svars, wvars, nvars>>

\* the iteration that builds the first chunk when extra_info is None
ChunkStepTypeError ==
    /\ c_pc = "loop"
    /\ PagesTestRaises(WindowText(c_text, c_start,
                                  WindowEnd(c_text, c_start, chunk_size)))
    /\ Fallback

\* an exception raised by any other statement of an iteration
\* (MemoryError and the like)
ChunkStepRaises ==
    /\ c_pc = "loop"
    /\ Fallback

NextChunk == CleanText \/ ChunkStep \/ ChunkStepTypeError \/ ChunkStepRaises

SpecChunk == InitChunk /\ [][NextChunk]_vars

\* the call runs to its end once made
FairSpecChunk == SpecChunk /\ WF_vars(NextChunk)

ChunkDone == c_pc = "done"

\* the start of the window strictly increases from one iteration to the next
StartAdvances == c_prev_start # -1 => c_prev_start < c_start

\* empty or whitespace-only text gives [] and no failure
BlankTextGivesNoChunks ==
    (ChunkDone /\ \A i \in 1..Len(c_raw) : IsSpace(c_raw[i]))
    => c_outcome = Returned(<< >>) /\ ~c_failed

\* C16: _create_chunks terminates for every text, chunk_size >= 1 and
\* overlap >= 0 (overlap >= chunk_size included), the window start strictly
\* increasing at every iteration; blank text returns the empty list without
\* error.
C16_ChunkingTerminates ==
    /\ <>ChunkDone
    /\ [](StartAdvances /\ BlankTextGivesNoChunks)

\* a finished call with overlap >= chunk_size that made several iterations
C16_Witness ==
    /\ ChunkDone /\ ~c_failed
    /\ chunk_overlap >= chunk_size
    /\ c_prev_start >= 1
    /\ Len(c_outcome.value) >= 2

\* C17: for non-empty normalized text the returned chunks have chunk_index
\* 0, 1, 2, ... without gap or repeat, non-empty text, start_char < end_char
\* and start_char strictly increasing with chunk_index.
C17_ChunkIndexAndSpansInOrder ==
    (ChunkDone /\ CleanedText(c_raw) # << >>)
    => LET out == c_outcome.value
       IN /\ c_outcome.kind = "returned"
          /\ \A i \in 1..Len(out) :
                /\ out[i].metadata.chunk_index = i - 1
                /\ out[i].text # << >>
                /\ out[i].metadata.start_char < out[i].metadata.end_char
                /\ i < Len(out)
                   => out[i].metadata.start_char < out[i + 1].metadata.start_char

\* a result of several chunks with an empty window between two of them
C17_Witness ==
    /\ ChunkDone /\ ~c_failed
    /\ LET out == c_outcome.value
       IN /\ Len(out) >= 2
          /\ \E i \in 1..(Len(out) - 1) :
                out[i].metadata.end_char < out[i + 1].metadata.start_char

\* C18: for non-empty normalized text and overlap < chunk_size every
\* character position of the normalized text lies in the span
\* [start_char, end_char) of a returned chunk.
C18_SpansCoverText ==
    (ChunkDone /\ CleanedText(c_raw) # << >> /\ chunk_overlap < chunk_size)
    => LET out == c_outcome.value
       IN \A pos \in 0..(Len(CleanedText(c_raw)) - 1) :
             \E i \in 1..Len(out) :
                /\ out[i].metadata.start_char <= pos
                /\ pos < out[i].metadata.end_char

\* C19: of two consecutive chunks, the first at least overlap characters
\* long, the text of the second begins with the last overlap characters of
\* the text of the first.
C19_NextChunkBeginsWithOverlap ==
    ChunkDone
    => LET out == c_outcome.value
       IN \A i \in 1..(Len(out) - 1) :
             Len(out[i].text) >= chunk_overlap
             => /\ Len(out[i + 1].text) >= chunk_overlap
                /\ Take(out[i + 1].text, chunk_overlap)
                   = SubSeq(out[i].text, Len(out[i].text) - chunk_overlap + 1,
                            Len(out[i].text))

\* C20: whatever fails inside chunk construction, _create_chunks raises
\* nothing and returns exactly one chunk holding the whole normalized text
\* with chunk_index 0, start_char 0 and end_char the length of that text.
C20_FailureFallsBackToOneChunk ==
    (ChunkDone /\ c_failed)
    => LET out == c_outcome.value
       IN /\ c_outcome.kind = "returned"
          /\ Len(out) = 1
          /\ out[1].text = CleanedText(c_raw)
          /\ out[1].metadata.chunk_index = 0
          /\ out[1].metadata.start_char = 0
          /\ out[1].metadata.end_char = Len(CleanedText(c_raw))

\* a failure after chunks had already been built
C20_Witness ==
    /\ ChunkDone /\ c_failed
    /\ Len(c_chunks) >= 2
    /\ Len(c_outcome.value) = 1

\* ---------------------------------------------------------------------
\* RetrievalService.get_context_for_query
\* ---------------------------------------------------------------------

\* the default of max_context_length
default_max_context_length == 4000

\* lines 400-411: the context chunk of a citation
ContextChunk(citation) ==
    [text |-> citation.chunk_text,
     source |-> [document_id |-> citation.document_id,
                 filename |-> citation.filename,
                 page_number |-> citation.page_number,
                 chunk_index |-> citation.chunk_index],
     relevance_score |-> citation.relevance_score]

\* the dict returned at lines 416-423
ContextResult(source_citations) ==
    LET chunks == [i \in 1..Len(source_citations) |-> ContextChunk(source_citations[i])]
    IN [context_chunks |-> chunks,
        formatted_context |-> _format_context_for_llm(chunks, default_max_context_length),
        source_citations |-> source_citations,
        total_chunks |-> Len(chunks),
        has_context |-> Len(chunks) > 0]

\* a failed retrieval answered with an empty context
GetContextOutcome_empty(retrieved) ==
    IF retrieved.kind = "raised" THEN Returned(ContextResult(<< >>))
    ELSE Returned(ContextResult(retrieved.value))

\* what get_context_for_query gives for the outcome of its call of
\* retrieve_relevant_chunks: the except of line 425 raises RetrievalError
GetContextOutcome(retrieved) ==
    IF retrieved.kind = "raised" THEN Raised(RetrievalError)
    ELSE Returned(ContextResult(retrieved.value))

\* get_context_for_query after its call of retrieve_relevant_chunks ended
GetContextForQuery ==
    /\ r_pc = "done" /\ g_outcome = Pending
    /\ g_outcome' = GetContextOutcome(r_outcome)
    /\ UNCHANGED <<rvars, fvars, evars, kvars, cvars, ivars, mvars, svars, wvars, nvars>>

NextGetContext == NextRetrieval \/ GetContextForQuery

\* get_context_for_query from its entry: the retrieval, then the context
SpecGetContext == InitRetrieval /\ [][NextGetContext]_vars

\* C21: when the embedding of the query or the query of the vector index
\* fails, retrieve_relevant_chunks raises RetrievalError and returns no
\* citations, and get_context_for_query raises RetrievalError too: a context
\* is returned only for a retrieval that succeeded, built from its citations.
C21_FailuresPropagateAsRetrievalError ==
    /\ r_failure # "none"
       => /\ r_outcome = Raised(RetrievalError)
          /\ r_outcome.value = << >>
          /\ g_outcome \in {Pending, Raised(RetrievalError)}
    /\ g_outcome.kind = "returned"
       => /\ r_failure = "none"
          /\ r_outcome.kind = "returned"
          /\ g_outcome.value.source_citations = r_outcome.value
          /\ g_outcome.value.total_chunks = Len(r_outcome.value)

\* the index query failed for a caller who has vectors in the index, and
\* get_context_for_query has raised
C21_Witness ==
    /\ r_failure = "vector_index"
    /\ \E v \in index : v.metadata.user_id = user_id
    /\ g_outcome = Raised(RetrievalError)

\* ---------------------------------------------------------------------
\* Ingestion: IngestionManager, upload_document, reprocess_document,
\* process_document_background, delete_document (routers/ingest.py) and
\* VectorDBService.upsert_vectors / delete_vectors
\* ---------------------------------------------------------------------

MaxJobs == 2
\* chunks with embeddings of the document
MaxVectors == 2
\* batch_size of upsert_vectors (100 in the source, scaled down)
upsert_batch_size == 1

JobIds == 1..MaxJobs
VectorIds == 0..(MaxVectors - 1)

NoJob == [status |-> "absent", progress |-> 0, completed_at |-> FALSE]

\* the dict stored by create_job
NewJob == [status |-> "pending", progress |-> 0, completed_at |-> FALSE]

\* IngestionManager.update_job
update_job(jobs, job_id, kwargs) ==
    IF jobs[job_id] # NoJob
    THEN [jobs EXCEPT ![job_id] = DictUpdate(@, kwargs)]
    ELSE jobs

\* complete_job setting progress to 100 on failure too
complete_job_full(jobs, job_id, success) ==
    IF jobs[job_id] # NoJob
    THEN [jobs EXCEPT ![job_id] =
            [status |-> IF success THEN "completed" ELSE "failed",
             progress |-> 100,
             completed_at |-> TRUE]]
    ELSE jobs

\* IngestionManager.complete_job
complete_job(jobs, job_id, success) ==
    IF jobs[job_id] # NoJob
    THEN [jobs EXCEPT ![job_id] =
            [status |-> IF success THEN "completed" ELSE "failed",
             progress |-> IF success THEN 100 ELSE @.progress,
             completed_at |-> TRUE]]
    ELSE jobs

\* a background task that has not been scheduled
NoTask == [pc |-> "none", batch |-> 0, rejected |-> FALSE, failed_step |-> "none"]

\* background_tasks.add_task(process_document_background, ...)
QueuedTask == [pc |-> "queued", batch |-> 0, rejected |-> FALSE, failed_step |-> "none"]

\* the vectors of batch number b of upsert_vectors
UpsertBatch(b) ==
    { v \in VectorIds : /\ v >= b * upsert_batch_size
                        /\ v < (b + 1) * upsert_batch_size }

\* the last batch index of the loop of upsert_vectors
LastUpsertBatch == (MaxVectors - 1) \div upsert_batch_size

\* VectorDBService.delete_vectors(vector_ids, delete_all, filter_dict) on the
\* vectors of the document: delete_all or a filter on the document removes
\* them all, otherwise the ids given are removed
delete_vectors(idx, vector_ids, delete_all, has_filter) ==
    IF delete_all \/ has_filter THEN {} ELSE idx \ vector_ids

\* the call of lines 450-455: delete_vectors(filter_dict=...) gives no
\* vector_ids, a required parameter, so the call raises TypeError before the
\* body runs; the except of line 457 logs a warning
DeleteDocumentVectors(idx) == idx

InitIngest ==
    /\ i_doc = [exists |-> FALSE, ingestion_status |-> "pending", is_indexed |-> FALSE]
    /\ i_jobs = [j \in JobIds |-> NoJob]
    /\ i_tasks = [j \in JobIds |-> NoTask]
    /\ i_index = {}
    /\ i_delete_pc = "idle"
    /\ i_delete_outcome = "none"
    /\ RetrievalIdle /\ ContextIdle /\ EmbedIdle /\ RerankIdle /\ ChunkIdle /\ GetContextIdle /\ SharedRerankerIdle /\ SnippetIdle /\ EmbedMetaIdle /\ ConnectionsIdle

\* the job id create_job hands out next
FreeJob(j) == i_jobs[j] = NoJob /\ \A h \in 1..(j - 1) : i_jobs[h] # NoJob

\* upload_document: the row is committed, the job created, the task queued
Upload ==
    /\ ~i_doc.exists /\ FreeJob(1)
    /\ i_doc' = [exists |-> TRUE, ingestion_status |-> "pending", is_indexed |-> FALSE]
    /\ i_jobs' = [i_jobs EXCEPT ![1] = NewJob]
    /\ i_tasks' = [i_tasks EXCEPT ![1] = QueuedTask]
    /\ UNCHANGED <<i_index, i_delete_pc, i_delete_outcome,
                   rvars, fvars, evars, kvars, cvars, gvars, mvars, svars, wvars, nvars>>

\* reprocess_document: status back to PENDING, a new job, a new task
Reprocess(j) ==
    /\ i_doc.exists /\ FreeJob(j)
    /\ i_doc' = [i_doc EXCEPT !.ingestion_status = "pending"]
    /\ i_jobs' = [i_jobs EXCEPT ![j] = NewJob]
    /\ i_tasks' = [i_tasks EXCEPT ![j] = QueuedTask]
    /\ UNCHANGED <<i_index, i_delete_pc, i_delete_outcome,
                   rvars, fvars, evars, kvars, cvars, gvars, mvars, svars, wvars, nvars>>

\* the task of job j moves to pc
TaskTo(j, pc) == [i_tasks EXCEPT ![j].pc = pc]

\* the except of lines 301-313 up to its commit, entered from step: with
\* `document` never assigned (the lookup raised) `if document` raises
\* UnboundLocalError, which leaves the task
TaskFailed(j, step) ==
    [i_tasks EXCEPT ![j].failed_step = step,
                    ![j].pc = IF step = "lookup" THEN "crashed" ELSE "failure_commit"]

IngestRest == <<rvars, fvars, evars, kvars, cvars, gvars, mvars, svars, wvars, nvars>>

\* lines 190-199: the document is found
LookupFound(j) ==
    /\ i_tasks[j].pc = "queued" /\ i_doc.exists
    /\ i_tasks' = TaskTo(j, "commit_processing")
    /\ UNCHANGED <<i_doc, i_jobs, i_index, i_delete_pc, i_delete_outcome, IngestRest>>

\* lines 194-196: no such document
LookupNotFound(j) ==
    /\ i_tasks[j].pc = "queued" /\ ~i_doc.exists
    /\ i_jobs' = complete_job(i_jobs, j, FALSE)
    /\ i_tasks' = TaskTo(j, "finished")
    /\ UNCHANGED <<i_doc, i_index, i_delete_pc, i_delete_outcome, IngestRest>>

\* line 191 raises
LookupRaises(j) ==
    /\ i_tasks[j].pc = "queued"
    /\ i_tasks' = TaskFailed(j, "lookup")
    /\ UNCHANGED <<i_doc, i_jobs, i_index, i_delete_pc, i_delete_outcome, IngestRest>>

\* lines 200-206: PROCESSING is committed, the job updated
StatusCommit(j) ==
    /\ i_tasks[j].pc = "commit_processing" /\ i_doc.exists
    /\ i_doc' = [i_doc EXCEPT !.ingestion_status = "processing"]
    /\ i_jobs' = update_job(i_jobs, j, [status |-> "processing", progress |-> 20])
    /\ i_tasks' = TaskTo(j, "process")
    /\ UNCHANGED <<i_index, i_delete_pc, i_delete_outcome, IngestRest>>

StatusCommitFails(j) ==
    /\ i_tasks[j].pc = "commit_processing"
    /\ i_tasks' = TaskFailed(j, "status_commit")
    /\ UNCHANGED <<i_doc, i_jobs, i_index, i_delete_pc, i_delete_outcome, IngestRest>>

\* lines 214-230
ProcessDocument(j) ==
    /\ i_tasks[j].pc = "process"
    /\ i_jobs' = update_job(i_jobs, j, [progress |-> 40])
    /\ i_tasks' = TaskTo(j, "embed")
    /\ UNCHANGED <<i_doc, i_index, i_delete_pc, i_delete_outcome, IngestRest>>

ProcessDocumentFails(j) ==
    /\ i_tasks[j].pc = "process"
    /\ i_tasks' = TaskFailed(j, "processing")
    /\ UNCHANGED <<i_doc, i_jobs, i_index, i_delete_pc, i_delete_outcome, IngestRest>>

\* lines 233-259: the embeddings, then the vectors are prepared
CreateEmbeddings(j) ==
    /\ i_tasks[j].pc = "embed"
    /\ i_jobs' = update_job(i_jobs, j, [progress |-> 60])
    /\ i_tasks' = [i_tasks EXCEPT ![j].pc = "upsert", ![j].batch = 0]
    /\ UNCHANGED <<i_doc, i_index, i_delete_pc, i_delete_outcome, IngestRest>>

CreateEmbeddingsFails(j) ==
    /\ i_tasks[j].pc = "embed"
    /\ i_tasks' = TaskFailed(j, "embedding")
    /\ UNCHANGED <<i_doc, i_jobs, i_index, i_delete_pc, i_delete_outcome, IngestRest>>

\* after a batch of upsert_vectors: the next batch, or the return of
\* upsert_vectors and lines 261-277 of the task
AfterUpsertBatch(j, rejected) ==
    IF i_tasks[j].batch < LastUpsertBatch
    THEN /\ i_tasks' = [i_tasks EXCEPT ![j].batch = @ + 1,
                                       ![j].rejected = @ \/ rejected]
         /\ UNCHANGED i_jobs
    ELSE /\ i_tasks' = [i_tasks EXCEPT ![j].pc = "final_commit",
                                       ![j].rejected = @ \/ rejected]
         /\ i_jobs' = update_job(i_jobs, j, [progress |-> 80])

\* one batch of upsert_vectors is stored by the index
UpsertBatchStored(j) ==
    /\ i_tasks[j].pc = "upsert"
    /\ i_index' = i_index \cup UpsertBatch(i_tasks[j].batch)
    /\ AfterUpsertBatch(j, FALSE)
    /\ UNCHANGED <<i_doc, i_delete_pc, i_delete_outcome, IngestRest>>

\* the index rejects the batch: the inner except of upsert_vectors appends
\* a message to errors and the loop goes on
UpsertBatchRejected(j) ==
    /\ i_tasks[j].pc = "upsert"
    /\ AfterUpsertBatch(j, TRUE)
    /\ UNCHANGED <<i_doc, i_index, i_delete_pc, i_delete_outcome, IngestRest>>

\* lines 274-292: COMPLETED and is_indexed are committed, the job completed
FinalCommit(j) ==
    /\ i_tasks[j].pc = "final_commit" /\ i_doc.exists
    /\ i_doc' = [i_doc EXCEPT !.ingestion_status = "completed", !.is_indexed = TRUE]
    /\ i_jobs' = complete_job(i_jobs, j, TRUE)
    /\ i_tasks' = TaskTo(j, "finished")
    /\ UNCHANGED <<i_index, i_delete_pc, i_delete_outcome, IngestRest>>

FinalCommitFails(j) ==
    /\ i_tasks[j].pc = "final_commit"
    /\ i_tasks' = TaskFailed(j, "final_commit")
    /\ UNCHANGED <<i_doc, i_jobs, i_index, i_delete_pc, i_delete_outcome, IngestRest>>

\* lines 311-316: FAILED is committed, the job failed
FailureCommit(j) ==
    /\ i_tasks[j].pc = "failure_commit" /\ i_doc.exists
    /\ i_doc' = [i_doc EXCEPT !.ingestion_status = "failed"]
    /\ i_jobs' = complete_job(i_jobs, j, FALSE)
    /\ i_tasks' = TaskTo(j, "finished")
    /\ UNCHANGED <<i_index, i_delete_pc, i_delete_outcome, IngestRest>>

\* the commit of line 313 raises: the exception leaves the task
FailureCommitFails(j) ==
    /\ i_tasks[j].pc = "failure_commit"
    /\ i_tasks' = TaskTo(j, "crashed")
    /\ UNCHANGED <<i_doc, i_jobs, i_index, i_delete_pc, i_delete_outcome, IngestRest>>

\* a step of the background task of job j
TaskStep(j) ==
    \/ LookupFound(j) \/ LookupNotFound(j) \/ LookupRaises(j)
    \/ StatusCommit(j) \/ StatusCommitFails(j)
    \/ ProcessDocument(j) \/ ProcessDocumentFails(j)
    \/ CreateEmbeddings(j) \/ CreateEmbeddingsFails(j)
    \/ UpsertBatchStored(j) \/ UpsertBatchRejected(j)
    \/ FinalCommit(j) \/ FinalCommitFails(j)
    \/ FailureCommit(j) \/ FailureCommitFails(j)

\* delete_document, lines 435-445
DeleteLookup ==
    /\ i_delete_pc = "idle"
    /\ IF i_doc.exists
       THEN /\ i_delete_pc' = "delete_vectors"
            /\ UNCHANGED i_delete_outcome
       ELSE /\ i_delete_pc' = "done"
            /\ i_delete_outcome' = "not_found"
    /\ UNCHANGED <<i_doc, i_jobs, i_tasks, i_index, IngestRest>>

\* lines 448-466
DeleteVectors ==
    /\ i_delete_pc = "delete_vectors"
    /\ i_index' = DeleteDocumentVectors(i_index)
    /\ i_delete_pc' = "commit"
    /\ UNCHANGED <<i_doc, i_jobs, i_tasks, i_delete_outcome, IngestRest>>

\* lines 469-473: the row is deleted, success is answered
DeleteCommit ==
    /\ i_delete_pc = "commit"
    /\ i_doc' = [i_doc EXCEPT !.exists = FALSE]
    /\ i_delete_pc' = "done"
    /\ i_delete_outcome' = "success"
    /\ UNCHANGED <<i_jobs, i_tasks, i_index, IngestRest>>

\* the commit raises: lines 477-479 answer 500
DeleteCommitFails ==
    /\ i_delete_pc = "commit"
    /\ i_delete_pc' = "done"
    /\ i_delete_outcome' = "error"
    /\ UNCHANGED <<i_doc, i_jobs, i_tasks, i_index, IngestRest>>

NextIngest ==
    \/ Upload
    \/ \E j \in JobIds : Reprocess(j)
    \/ \E j \in JobIds : TaskStep(j)
    \/ DeleteLookup \/ DeleteVectors \/ DeleteCommit \/ DeleteCommitFails

SpecIngest == InitIngest /\ [][NextIngest]_vars

\* a background task that was queued keeps running until it ends
FairSpecIngest == SpecIngest /\ \A j \in JobIds : WF_vars(TaskStep(j))

\* C22: when the index rejects an upsert batch of a task, the job of that
\* task is never COMPLETED, and the document is never COMPLETED and
\* is_indexed while some of its vectors are missing from the index.
C22_RejectedUpsertFailsIngestion ==
    /\ \A j \in JobIds : i_tasks[j].rejected => i_jobs[j].status # "completed"
    /\ (i_doc.exists /\ i_doc.ingestion_status = "completed" /\ i_doc.is_indexed)
       => i_index = VectorIds

\* C27: every job whose background task has been queued eventually has
\* status COMPLETED or FAILED, whichever step of the task fails.
C27_EveryJobReachesTerminalStatus ==
    \A j \in JobIds :
        (i_tasks[j].pc = "queued") ~> (i_jobs[j].status \in {"completed", "failed"})

JobTerminal(job) == job.status \in {"completed", "failed"}

\* the change of job j in a step is one the claim allows
JobStepAllowed(j) ==
    LET before == i_jobs[j]
        after == i_jobs'[j]
    IN /\ before.status # after.status
          => <<before.status, after.status>> \in
                { <<"absent", "pending">>, <<"pending", "processing">>,
                  <<"pending", "failed">>, <<"processing", "completed">>,
                  <<"processing", "failed">> }
       /\ JobTerminal(before) => after = before
       /\ after.progress >= before.progress

JobStateAllowed(j) ==
    /\ i_jobs[j].progress = 100 <=> i_jobs[j].status = "completed"
    /\ i_jobs[j].completed_at <=> JobTerminal(i_jobs[j])

\* C28: a job's status only moves PENDING -> PROCESSING -> COMPLETED or
\* FAILED, or PENDING -> FAILED, and a COMPLETED or FAILED job never
\* changes again; progress never decreases and is 100 exactly when the
\* status is COMPLETED; completed_at is set exactly when the status is
\* COMPLETED or FAILED.
C28_JobLifecycle ==
    /\ [][\A j \in JobIds : JobStepAllowed(j)]_vars
    /\ [](\A j \in JobIds : JobStateAllowed(j))

\* one job COMPLETED, another FAILED straight from PENDING
C28_Witness ==
    \E j, h \in JobIds :
        /\ i_jobs[j].status = "completed"
        /\ i_jobs[h].status = "failed" /\ i_jobs[h].progress = 0

\* C29: once delete_document has answered success, the index holds no
\* vector of the document.
C29_DeletedDocumentHasNoVectors ==
    i_delete_outcome = "success" => i_index = {}

\* ---------------------------------------------------------------------
\* RerankerService shared by concurrent rerank and update_model calls
\* ---------------------------------------------------------------------

MaxCallers == 2
MaxBatches == 2
MaxUpdates == 2

Callers == 1..MaxCallers

\* settings.rerank_model
rerank_model == "cross-encoder-base"

\* names given to update_model
NewModelNames == {"cross-encoder-large", rerank_model}

\* a rerank call that has not started
NoCall == [pc |-> "idle", batches |-> 0, seen |-> << >>]

NoUpdate == [pc |-> "idle", old_model |-> "None", updates |-> 0]

SharedRest == <<rvars, fvars, evars, kvars, cvars, gvars, ivars, svars, wvars, nvars>>

\* __init__: model_name from the settings, _load_model loads the handle or
\* leaves None when loading fails
InitSharedReranker ==
    /\ m_model \in {rerank_model, "None"}
    /\ m_model_name = rerank_model
    /\ m_constructed = [model |-> m_model, model_name |-> m_model_name]
    /\ m_calls = [c \in Callers |-> NoCall]
    /\ m_update = NoUpdate
    /\ RetrievalIdle /\ ContextIdle /\ EmbedIdle /\ RerankIdle /\ ChunkIdle /\ GetContextIdle /\ IngestIdle /\ SnippetIdle /\ EmbedMetaIdle /\ ConnectionsIdle

\* rerank up to its first suspension: `if not self.model`, then the pairs;
\* n is the number of batches _predict_scores will make
RerankEnter(c, n) ==
    /\ m_calls[c].pc = "idle"
    /\ m_calls' = [m_calls EXCEPT ![c] =
          [pc |-> IF m_model = "None" THEN "done" ELSE "predict",
           batches |-> IF m_model = "None" THEN 0 ELSE n,
           seen |-> <<m_model>>]]
    /\ UNCHANGED <<m_constructed, m_model, m_model_name, m_update, SharedRest>>

\* one iteration of _predict_scores: self.model.predict(batch), then the
\* sleep that lets the other coroutines run.  With self.model None the
\* attribute lookup raises and rerank answers the neutral scores.
SharedPredictBatch(c) ==
    /\ m_calls[c].pc = "predict"
    /\ m_calls' = [m_calls EXCEPT ![c] =
          [pc |-> IF m_model = "None" \/ m_calls[c].batches = 1
                  THEN "done" ELSE "predict",
           batches |-> m_calls[c].batches - 1,
           seen |-> Append(m_calls[c].seen, m_model)]]
    /\ UNCHANGED <<m_constructed, m_model, m_model_name, m_update, SharedRest>>

\* update_model up to the sleep inside test_reranker: old_model kept,
\* model_name assigned, _load_model loads the new handle, test_reranker
\* calls rerank, whose only batch is predicted before the first suspension
UpdateModelLoaded(new_model_name) ==
    /\ m_update.pc = "idle" /\ m_update.updates < MaxUpdates
    /\ m_model_name' = new_model_name
    /\ m_model' = new_model_name
    /\ m_update' = [pc |-> "testing", old_model |-> m_model,
                    updates |-> m_update.updates + 1]
    /\ UNCHANGED <<m_constructed, m_calls, SharedRest>>

\* update_model when _load_model fails: self.model is None, test_reranker
\* answers "error" without suspending, old_model and settings.rerank_model
\* are put back and False is returned
UpdateModelLoadFails(new_model_name) ==
    /\ m_update.pc = "idle" /\ m_update.updates < MaxUpdates
    /\ m_model_name' = rerank_model
    /\ m_model' = m_model
    /\ m_update' = [pc |-> "idle", old_model |-> m_model,
                    updates |-> m_update.updates + 1]
    /\ UNCHANGED <<m_constructed, m_calls, SharedRest>>

\* update_model after the sleep: rerank answers scores (neutral ones when
\* predict raised), test_reranker answers "success", True is returned and
\* the new handle stays
UpdateModelTested ==
    /\ m_update.pc = "testing"
    /\ m_update' = [m_update EXCEPT !.pc = "idle"]
    /\ UNCHANGED <<m_constructed, m_model, m_model_name, m_calls, SharedRest>>

NextSharedReranker ==
    \/ \E c \in Callers, n \in 1..MaxBatches : RerankEnter(c, n)
    \/ \E c \in Callers : SharedPredictBatch(c)
    \/ \E new_model_name \in NewModelNames : UpdateModelLoaded(new_model_name)
    \/ \E new_model_name \in NewModelNames : UpdateModelLoadFails(new_model_name)
    \/ UpdateModelTested

SpecSharedReranker == InitSharedReranker /\ [][NextSharedReranker]_vars

\* C23: the model handle and the model name of the service stay the ones
\* set at construction, and every handle read by a rerank call, at its
\* entry and at each batch, is that handle.
C23_ModelReadOnlyAfterConstruction ==
    /\ m_model = m_constructed.model
    /\ m_model_name = m_constructed.model_name
    /\ \A c \in Callers : \A i \in 1..Len(m_calls[c].seen) :
          m_calls[c].seen[i] = m_constructed.model

\* ---------------------------------------------------------------------
\* RetrievalService._create_snippet
\* ---------------------------------------------------------------------

\* max_length of _create_snippet (200 in the source, scaled down)
snippet_max_length == 4
MaxSnippetText == 6

SnippetChars == {"a", " "}

ellipsis == <<".", ".", ".">>

\* _create_snippet(text, query_embedding, max_length)
_create_snippet(text, max_length) ==
    IF Len(text) <= max_length THEN text
    ELSE Take(text, max_length) \o ellipsis

InitSnippet ==
    /\ s_text \in SeqsUpTo(SnippetChars, MaxSnippetText)
    /\ s_pc = "call"
    /\ s_snippet = << >>
    /\ RetrievalIdle /\ ContextIdle /\ EmbedIdle /\ RerankIdle /\ ChunkIdle /\ GetContextIdle /\ IngestIdle /\ SharedRerankerIdle /\ EmbedMetaIdle /\ ConnectionsIdle

\* snippet = self._create_snippet(text, query_embedding) while the citation
\* is built
CreateSnippet ==
    /\ s_pc = "call"
    /\ s_snippet' = _create_snippet(s_text, snippet_max_length)
    /\ s_pc' = "done"
    /\ UNCHANGED <<s_text, rvars, fvars, evars, kvars, cvars, gvars, ivars, mvars, wvars, nvars>>

NextSnippet == CreateSnippet

SpecSnippet == InitSnippet /\ [][NextSnippet]_vars

\* C24: the snippet is never longer than max_length; for a text longer than
\* max_length it is a prefix of the text followed by the ellipsis marker,
\* otherwise it is the text itself.
C24_SnippetWithinHardCap ==
    s_pc = "done" =>
        /\ Len(s_snippet) <= snippet_max_length
        /\ IF Len(s_text) > snippet_max_length
           THEN \E n \in 0..Len(s_text) : s_snippet = Take(s_text, n) \o ellipsis
           ELSE s_snippet = s_text

\* C25: every returned chunk, the last one included, has 0 <= start_char and
\* end_char <= length of the normalized text, and its text is the normalized
\* text between start_char and end_char without leading and trailing spaces.
C25_ChunkOffsetsInsideText ==
    ChunkDone
    => LET out == c_outcome.value
           normalized == CleanedText(c_raw)
       IN \A i \in 1..Len(out) :
             /\ 0 <= out[i].metadata.start_char
             /\ out[i].metadata.end_char <= Len(normalized)
             /\ out[i].text = Strip(Slice(normalized, out[i].metadata.start_char,
                                          out[i].metadata.end_char))

\* ---------------------------------------------------------------------
\* EmbeddingService.prepare_texts_for_embedding and
\* create_embeddings_with_metadata
\* ---------------------------------------------------------------------

MaxMetaChunks == 2
MaxMetaTextLen == 4
\* "Minimum 10 characters" (scaled down)
min_text_chars == 2
\* max_tokens = 8000 (scaled down)
max_tokens == 3

\* settings.embedding_model
embedding_model == "text-embedding-3-small"

MetaChars == {"a", " "}

\* len(self.tokenizer.encode(text)) with a tokenizer of one token a character
_count_tokens(text) == Len(text)

\* text.split(): the words between runs of whitespace
RECURSIVE Words(_)
Words(s) ==
    LET t == Strip(s)
    IN IF t = << >> THEN << >>
       ELSE LET stops == { i \in 1..Len(t) : IsSpace(t[i]) }
                n == IF stops = {} THEN Len(t)
                     ELSE (CHOOSE i \in stops : \A j \in stops : i <= j) - 1
            IN <<SubSeq(t, 1, n)>> \o Words(SubSeq(t, n + 1, Len(t)))

\* ' '.join(words)
RECURSIVE JoinWords(_)
JoinWords(ws) ==
    IF ws = << >> THEN << >>
    ELSE IF Len(ws) = 1 THEN ws[1]
    ELSE ws[1] \o <<" ">> \o JoinWords(Tail(ws))

\* the loop over words (lines 249-254): words are added while the text
\* stays within max_tokens, the first one that does not fit ends the loop
RECURSIVE TruncateWords(_, _)
TruncateWords(truncated_text, ws) ==
    IF ws = << >> THEN truncated_text
    ELSE LET test_text == IF truncated_text # << >>
                          THEN truncated_text \o <<" ">> \o Head(ws)
                          ELSE Head(ws)
         IN IF _count_tokens(test_text) <= max_tokens
            THEN TruncateWords(test_text, Tail(ws))
            ELSE truncated_text

\* the text appended to prepared_texts for a chunk that is not skipped
PreparedText(chunk_text_) ==
    LET cleaned == JoinWords(Words(Strip(chunk_text_)))
    IN IF _count_tokens(cleaned) > max_tokens
       THEN Strip(TruncateWords(<< >>, Words(cleaned)))
       ELSE cleaned

\* `len(text) < 10` with `<=`
TooShort_le(chunk) == Len(Strip(chunk.text)) <= min_text_chars

\* `len(text) < 10` on the stripped text of the chunk
TooShort(chunk) == Len(Strip(chunk.text)) < min_text_chars

\* prepare_texts_for_embedding that skips the chunks of exactly the
\* minimum length too
RECURSIVE prepare_texts_for_embedding_le(_)
prepare_texts_for_embedding_le(chunks) ==
    IF chunks = << >> THEN << >>
    ELSE IF TooShort_le(Head(chunks)) THEN prepare_texts_for_embedding_le(Tail(chunks))
    ELSE <<PreparedText(Head(chunks).text)>> \o prepare_texts_for_embedding_le(Tail(chunks))

\* prepare_texts_for_embedding (lines 221-262)
RECURSIVE prepare_texts_for_embedding(_)
prepare_texts_for_embedding(chunks) ==
    IF chunks = << >> THEN << >>
    ELSE IF TooShort(Head(chunks)) THEN prepare_texts_for_embedding(Tail(chunks))
    ELSE <<PreparedText(Head(chunks).text)>> \o prepare_texts_for_embedding(Tail(chunks))

\* chunk.copy() with the four fields added (lines 289-293)
ChunkWithEmbedding(chunk, embedding) ==
    [text |-> chunk.text, metadata |-> chunk.metadata,
     embedding |-> embedding,
     embedding_model |-> embedding_model,
     embedding_dimension |-> dimension,
     token_count |-> _count_tokens(Strip(chunk.text))]

\* the loop of lines 281-296 from the chunk list and embedding_index on
RECURSIVE AttachEmbeddings(_, _, _)
AttachEmbeddings(chunks, embeddings, embedding_index) ==
    IF chunks = << >> THEN << >>
    ELSE IF TooShort(Head(chunks))
    THEN AttachEmbeddings(Tail(chunks), embeddings, embedding_index)
    ELSE IF embedding_index < Len(embeddings)
    THEN <<ChunkWithEmbedding(Head(chunks), embeddings[embedding_index + 1])>>
         \o AttachEmbeddings(Tail(chunks), embeddings, embedding_index + 1)
    ELSE AttachEmbeddings(Tail(chunks), embeddings, embedding_index)

\* what generate_embeddings returns for the prepared texts when no batch
\* is exhausted: one embedding for each text, in order
GeneratedEmbeddings(prepared_texts) ==
    ResponseEmbeddings(prepared_texts, dimension)

MetaChunk(chunk_text_, i) ==
    [text |-> chunk_text_, metadata |-> [chunk_index |-> i]]

InitEmbedMeta ==
    /\ \E n \in 0..MaxMetaChunks :
          \E ts \in [1..n -> SeqsUpTo(MetaChars, MaxMetaTextLen)] :
             w_chunks = [i \in 1..n |-> MetaChunk(ts[i], i - 1)]
    /\ w_pc = "call"
    /\ w_outcome = Pending
    /\ RetrievalIdle /\ ContextIdle /\ EmbedIdle /\ RerankIdle /\ ChunkIdle /\ GetContextIdle /\ IngestIdle /\ SharedRerankerIdle /\ SnippetIdle /\ ConnectionsIdle

EmbedMetaRest == <<rvars, fvars, evars, kvars, cvars, gvars, ivars, mvars, svars, nvars>>

\* lines 271-275: no chunk is long enough
EmbedMetaNoTexts ==
    /\ w_pc = "call"
    /\ prepare_texts_for_embedding(w_chunks) = << >>
    /\ w_pc' = "done"
    /\ w_outcome' = Returned(<< >>)
    /\ UNCHANGED <<w_chunks, EmbedMetaRest>>

\* lines 277-304: generate_embeddings answers, the embeddings are attached
EmbedMetaReturns ==
    /\ w_pc = "call"
    /\ LET prepared_texts == prepare_texts_for_embedding(w_chunks)
       IN /\ prepared_texts # << >>
          /\ w_outcome' = Returned(AttachEmbeddings(w_chunks,
                                      GeneratedEmbeddings(prepared_texts), 0))
    /\ w_pc' = "done"
    /\ UNCHANGED <<w_chunks, EmbedMetaRest>>

\* lines 306-308: generate_embeddings raises EmbeddingError, which is
\* raised again
EmbedMetaRaises ==
    /\ w_pc = "call"
    /\ prepare_texts_for_embedding(w_chunks) # << >>
    /\ w_pc' = "done"
    /\ w_outcome' = Raised(WrapInEmbeddingError(BatchExhaustedError))
    /\ UNCHANGED <<w_chunks, EmbedMetaRest>>

NextEmbedMeta == EmbedMetaNoTexts \/ EmbedMetaReturns \/ EmbedMetaRaises

SpecEmbedMeta == InitEmbedMeta /\ [][NextEmbedMeta]_vars

\* the indices of the chunks that are long enough, in input order
KeptChunkIndices ==
    SelectSeq2([i \in 1..Len(w_chunks) |-> i],
               [i \in 1..Len(w_chunks) |-> Len(Strip(w_chunks[i].text)) >= min_text_chars])

\* C26: a returned list has one entry for each input chunk whose stripped
\* text has at least the minimum length, in input order; the entry carries
\* the embedding of the prepared text of that very chunk and the text and
\* metadata of the chunk as they were; the input list is never changed.
C26_EmbeddingsStayWithTheirChunks ==
    /\ [](w_outcome.kind = "returned"
          => LET out == w_outcome.value
                 kept == KeptChunkIndices
             IN /\ Len(out) = Len(kept)
                /\ \A k \in 1..Len(kept) :
                      /\ out[k].text = w_chunks[kept[k]].text
                      /\ out[k].metadata = w_chunks[kept[k]].metadata
                      /\ out[k].embedding
                         = ProviderEmbedding(PreparedText(w_chunks[kept[k]].text),
                                             dimension))
    /\ [][w_chunks' = w_chunks]_vars

\* a short chunk before a long one, and a chunk whose text was cut to fit
\* the token limit
C26_Witness ==
    /\ w_outcome.kind = "returned"
    /\ Len(w_chunks) = 2 /\ Len(w_outcome.value) = 1
    /\ Len(Strip(w_chunks[1].text)) < min_text_chars
    /\ w_outcome.value[1].metadata.chunk_index = 1
    /\ w_outcome.value[1].embedding.of # Strip(w_chunks[2].text)

\* ---------------------------------------------------------------------
\* ConnectionManager and websocket_endpoint
\* ---------------------------------------------------------------------

MaxSockets == 3

Sockets == 1..MaxSockets
SessionIds == {"session-1", "session-2"}
NoSocket == 0

\* a socket whose handler has not been entered
NewSocket == [pc |-> "new", session_id |-> "none"]

\* ConnectionManager.__init__ and no request yet
InitConnections ==
    /\ n_active = [sid \in SessionIds |-> NoSocket]
    /\ n_sockets = [s \in Sockets |-> NewSocket]
    /\ RetrievalIdle /\ ContextIdle /\ EmbedIdle /\ RerankIdle /\ ChunkIdle /\ GetContextIdle /\ IngestIdle /\ SharedRerankerIdle /\ SnippetIdle /\ EmbedMetaIdle

ConnectionsRest == <<rvars, fvars, evars, kvars, cvars, gvars, ivars, mvars, svars, wvars>>

\* active_connections[session_id] = websocket
connect(active, websocket, session_id) ==
    [active EXCEPT ![session_id] = websocket]

\* disconnect(session_id): the entry of the session is deleted when present;
\* the socket of the handler is not looked at
disconnect(active, session_id) ==
    IF active[session_id] # NoSocket
    THEN [active EXCEPT ![session_id] = NoSocket]
    ELSE active

\* websocket_endpoint entered for /ws/{session_id}: manager.connect is
\* suspended in websocket.accept()
Accept(s, session_id) ==
    /\ n_sockets[s].pc = "new"
    /\ n_sockets' = [n_sockets EXCEPT ![s] = [pc |-> "accepting",
                                              session_id |-> session_id]]
    /\ UNCHANGED <<n_active, ConnectionsRest>>

\* accept has returned: the socket is registered and the handler waits in
\* receive_text
Register(s) ==
    /\ n_sockets[s].pc = "accepting"
    /\ n_active' = connect(n_active, s, n_sockets[s].session_id)
    /\ n_sockets' = [n_sockets EXCEPT ![s].pc = "open"]
    /\ UNCHANGED ConnectionsRest

\* websocket.accept() raises: the handler ends before anything is registered
AcceptFails(s) ==
    /\ n_sockets[s].pc = "accepting"
    /\ n_sockets' = [n_sockets EXCEPT ![s].pc = "closed"]
    /\ UNCHANGED <<n_active, ConnectionsRest>>

\* WebSocketDisconnect or another exception in the loop:
\* manager.disconnect(session_id)
Disconnect(s) ==
    /\ n_sockets[s].pc = "open"
    /\ n_active' = disconnect(n_active, n_sockets[s].session_id)
    /\ n_sockets' = [n_sockets EXCEPT ![s].pc = "closed"]
    /\ UNCHANGED ConnectionsRest

NextConnections ==
    \/ \E s \in Sockets, session_id \in SessionIds : Accept(s, session_id)
    \/ \E s \in Sockets : Register(s)
    \/ \E s \in Sockets : AcceptFails(s)
    \/ \E s \in Sockets : Disconnect(s)

SpecConnections == InitConnections /\ [][NextConnections]_vars

\* send_message(session_id, ...) reaches the socket
Reachable(s) == n_active[n_sockets[s].session_id] = s

\* C30: every socket that has connected and has not disconnected is the
\* one registered for its session_id, and a step that leaves a registered
\* socket open leaves it registered.
C30_OpenSocketsStayRegistered ==
    /\ [](\A s \in Sockets : n_sockets[s].pc = "open" => Reachable(s))
    /\ [][\A s \in Sockets :
            (n_sockets[s].pc = "open" /\ Reachable(s) /\ n_sockets'[s].pc = "open")
            => Reachable(s)']_vars

============================================================================
